---------------------------- MODULE Spec2Model ----------------------------
(***************************************************************************)
(* Sello PAY back end: the session-correlated confirmation workflow of     *)
(* back/server.py (make_transaction and its two waiters), the reply        *)
(* endpoints of back/app.py, and the recipient-name matcher of             *)
(* back/name_matcher.py.                                                   *)
(*                                                                         *)
(* Strings are sequences of one-character strings.  A character outside    *)
(* ASCII is written by its code point ("U+0430" is CYRILLIC SMALL LETTER   *)
(* A).  An identifier such as "r1" or "tok" stands for one run of          *)
(* non-blank characters.  Scores are the matcher's scores times 100.       *)
(***************************************************************************)
EXTENDS Integers, Sequences, FiniteSets, TLC

(***************************************************************************)
(* Python values, as the JSON decoder produces them.                       *)
(***************************************************************************)
None == [t |-> "none"]
Str(s) == [t |-> "str", s |-> s]
Num(n) == [t |-> "num", n |-> n]
List(items) == [t |-> "list", items |-> items]
Dict(d) == [t |-> "dict", d |-> d]

\* bool(v)
Truthy(v) ==
    CASE v.t = "none" -> FALSE
      [] v.t = "str"  -> v.s # <<>>
      [] v.t = "num"  -> v.n # 0
      [] v.t = "list" -> v.items # <<>>
      [] v.t = "dict" -> DOMAIN v.d # {}

\* a or b
Or(a, b) == IF Truthy(a) THEN a ELSE b

\* v.get(k) of a dict v
Get(v, k) == IF k \in DOMAIN v.d THEN v.d[k] ELSE None

\* isinstance(v, dict) and "error" in v
IsError(v) == v.t = "dict" /\ "error" \in DOMAIN v.d

(***************************************************************************)
(* Strings.                                                                *)
(***************************************************************************)
Whitespace == {" ", "\t", "\n"}

RECURSIVE lstrip(_)
lstrip(s) == IF s # <<>> /\ Head(s) \in Whitespace THEN lstrip(Tail(s)) ELSE s

RECURSIVE rstrip(_)
rstrip(s) ==
    IF s # <<>> /\ s[Len(s)] \in Whitespace
    THEN rstrip(SubSeq(s, 1, Len(s) - 1))
    ELSE s

\* str.strip()
strip(s) == rstrip(lstrip(s))

\* y.startswith(x)
startswith(y, x) == Len(x) <= Len(y) /\ SubSeq(y, 1, Len(x)) = x

\* s.endswith(x)
endswith(s, x) == Len(x) <= Len(s) /\ SubSeq(s, Len(s) - Len(x) + 1, Len(s)) = x

\* x in y
contains(y, x) ==
    \E i \in 0..(Len(y) - Len(x)) : SubSeq(y, i + 1, i + Len(x)) = x

\* s.replace(old, new), old not empty
RECURSIVE replace(_, _, _)
replace(s, old, new) ==
    IF s = <<>> THEN <<>>
    ELSE IF startswith(s, old)
         THEN new \o replace(SubSeq(s, Len(old) + 1, Len(s)), old, new)
         ELSE <<Head(s)>> \o replace(Tail(s), old, new)

\* "".join(parts of seq of strings)
RECURSIVE concat(_)
concat(ss) == IF ss = <<>> THEN <<>> ELSE Head(ss) \o concat(Tail(ss))

\* sep.join(ss)
RECURSIVE join(_, _)
join(sep, ss) ==
    IF ss = <<>> THEN <<>>
    ELSE IF Len(ss) = 1 THEN Head(ss)
    ELSE Head(ss) \o sep \o join(sep, Tail(ss))

\* the pieces of s between the characters of seps; empty pieces are kept
RECURSIVE pieces(_, _, _)
pieces(s, seps, cur) ==
    IF s = <<>> THEN <<cur>>
    ELSE IF Head(s) \in seps
         THEN <<cur>> \o pieces(Tail(s), seps, <<>>)
         ELSE pieces(Tail(s), seps, Append(cur, Head(s)))

\* s.split(): split at runs of whitespace, no empty piece
split(s) == SelectSeq(pieces(s, Whitespace, <<>>), LAMBDA p : p # <<>>)

(***************************************************************************)
(* back/name_matcher.py: UzNameMatcher.                                    *)
(***************************************************************************)
\* _APOS: apostrophe, grave accent U+0060, U+02BB, U+2019, U+2018
_APOS == {"'", "U+0060", "U+02BB", "U+2019", "U+2018"}

_CYR_LOWER ==
    << <<"U+0430", <<"a">>>>, <<"U+0431", <<"b">>>>, <<"U+0432", <<"v">>>>,
       <<"U+0433", <<"g">>>>, <<"U+0434", <<"d">>>>, <<"U+0435", <<"e">>>>,
       <<"U+0451", <<"y", "o">>>>, <<"U+0436", <<"j">>>>, <<"U+0437", <<"z">>>>,
       <<"U+0438", <<"i">>>>, <<"U+0439", <<"y">>>>, <<"U+043A", <<"k">>>>,
       <<"U+043B", <<"l">>>>, <<"U+043C", <<"m">>>>, <<"U+043D", <<"n">>>>,
       <<"U+043E", <<"o">>>>, <<"U+043F", <<"p">>>>, <<"U+0440", <<"r">>>>,
       <<"U+0441", <<"s">>>>, <<"U+0442", <<"t">>>>, <<"U+0443", <<"u">>>>,
       <<"U+0444", <<"f">>>>, <<"U+0445", <<"x">>>>, <<"U+0446", <<"s">>>>,
       <<"U+0447", <<"c", "h">>>>, <<"U+0448", <<"s", "h">>>>, <<"U+044A", <<>>>>,
       <<"U+044C", <<>>>>, <<"U+044D", <<"e">>>>, <<"U+044E", <<"y", "u">>>>,
       <<"U+044F", <<"y", "a">>>>, <<"U+049B", <<"q">>>>, <<"U+0493", <<"g", "'">>>>,
       <<"U+04B3", <<"h">>>>, <<"U+045E", <<"o", "'">>>> >>

\* the capital of each lower-case letter of the table
_CYR_UPPER ==
    << <<"U+0410", "U+0430">>, <<"U+0411", "U+0431">>, <<"U+0412", "U+0432">>,
       <<"U+0413", "U+0433">>, <<"U+0414", "U+0434">>, <<"U+0415", "U+0435">>,
       <<"U+0401", "U+0451">>, <<"U+0416", "U+0436">>, <<"U+0417", "U+0437">>,
       <<"U+0418", "U+0438">>, <<"U+0419", "U+0439">>, <<"U+041A", "U+043A">>,
       <<"U+041B", "U+043B">>, <<"U+041C", "U+043C">>, <<"U+041D", "U+043D">>,
       <<"U+041E", "U+043E">>, <<"U+041F", "U+043F">>, <<"U+0420", "U+0440">>,
       <<"U+0421", "U+0441">>, <<"U+0422", "U+0442">>, <<"U+0423", "U+0443">>,
       <<"U+0424", "U+0444">>, <<"U+0425", "U+0445">>, <<"U+0426", "U+0446">>,
       <<"U+0427", "U+0447">>, <<"U+0428", "U+0448">>, <<"U+042A", "U+044A">>,
       <<"U+042C", "U+044C">>, <<"U+042D", "U+044D">>, <<"U+042E", "U+044E">>,
       <<"U+042F", "U+044F">>, <<"U+049A", "U+049B">>, <<"U+0492", "U+0493">>,
       <<"U+04B2", "U+04B3">>, <<"U+040E", "U+045E">> >>

\* the value a table of pairs gives to key k, or dflt
Lookup(table, k, dflt) ==
    IF \E i \in 1..Len(table) : table[i][1] = k
    THEN table[CHOOSE i \in 1..Len(table) : table[i][1] = k][2]
    ELSE dflt

\* _CYR_MAP: both cases of a letter map to the same Latin text
_CYR_MAP(c) ==
    Lookup(_CYR_LOWER, Lookup(_CYR_UPPER, c, c), <<c>>)

_COMMON_SUFFIXES ==
    << <<"j","o","n">>, <<"b","e","k">>, <<"x","o","n">>, <<"h","o","n">>,
       <<"i","d","d","i","n">>, <<"u","d","d","i","n">>, <<"u","l","l","o","h">>,
       <<"q","u","l","i">>, <<"q","u","l">> >>

\* s.translate(_CYR_MAP)
_cyr_to_lat(s) == concat([i \in 1..Len(s) |-> _CYR_MAP(s[i])])

AsciiLower == <<"a","b","c","d","e","f","g","h","i","j","k","l","m",
                "n","o","p","q","r","s","t","u","v","w","x","y","z">>
AsciiUpper == <<"A","B","C","D","E","F","G","H","I","J","K","L","M",
                "N","O","P","Q","R","S","T","U","V","W","X","Y","Z">>
Digits == {"0","1","2","3","4","5","6","7","8","9"}
SeqRange(q) == {q[i] : i \in 1..Len(q)}

\* Letters with a canonical decomposition: the letter, its base, its mark.
\* U+00E9 e-acute, U+00F6 o-diaeresis, U+00FC u-diaeresis, U+015F s-cedilla,
\* and the Cyrillic short i U+0439 / U+0419, io U+0451 / U+0401 and short u
\* U+045E / U+040E (letters of _CYR_MAP, which is applied first).
_NFD_TABLE ==
    << <<"U+00E9", <<"e", "U+0301">>>>, <<"U+00F6", <<"o", "U+0308">>>>,
       <<"U+00FC", <<"u", "U+0308">>>>, <<"U+015F", <<"s", "U+0327">>>>,
       <<"U+00C9", <<"E", "U+0301">>>>,
       <<"U+0439", <<"U+0438", "U+0306">>>>, <<"U+0419", <<"U+0418", "U+0306">>>>,
       <<"U+0451", <<"U+0435", "U+0308">>>>, <<"U+0401", <<"U+0415", "U+0308">>>>,
       <<"U+045E", <<"U+0443", "U+0306">>>>, <<"U+040E", <<"U+0423", "U+0306">>>> >>

\* unicodedata.category(ch) == "Mn": the combining marks of the alphabet
Mn == {"U+0301", "U+0308", "U+0327", "U+0306", "U+030C"}

\* unicodedata.normalize("NFD", s)
NFD(s) == concat([i \in 1..Len(s) |-> Lookup(_NFD_TABLE, s[i], <<s[i]>>)])

\* str.lower() of one character
lower1(c) ==
    IF \E i \in 1..26 : AsciiUpper[i] = c
    THEN AsciiLower[CHOOSE i \in 1..26 : AsciiUpper[i] = c]
    ELSE Lookup(_CYR_UPPER, c, c)

lower(s) == [i \in 1..Len(s) |-> lower1(s[i])]

\* ch.isalnum(): ASCII letters and digits, and the letters written by code
\* point (Cyrillic letters, modifier letters, phonetic symbols), but not the
\* grave accent, the quotation marks U+2018 / U+2019 nor the combining marks
isalnum(c) ==
    \/ c \in SeqRange(AsciiLower) \cup SeqRange(AsciiUpper) \cup Digits
    \/ /\ Len(c) > 1
       /\ c \notin Mn \cup {"U+0060", "U+2018", "U+2019"}

\* re.sub(r"(.)\1{2,}", r"\1\1", s): a run of three or more becomes two
RECURSIVE collapse3(_)
collapse3(s) ==
    IF Len(s) < 3 THEN s
    ELSE IF s[1] = s[2] /\ s[2] = s[3]
         THEN LET n == CHOOSE k \in 3..Len(s) :
                         /\ \A i \in 1..k : s[i] = s[1]
                         /\ (k < Len(s) => s[k + 1] # s[1])
              IN  <<s[1], s[1]>> \o collapse3(SubSeq(s, n + 1, Len(s)))
         ELSE <<s[1]>> \o collapse3(Tail(s))

Vowels == {"a", "e", "i", "o", "u"}

\* re.sub(r"([aeiou])\1+", r"\1", s): a run of one vowel becomes one
RECURSIVE collapseVowels(_)
collapseVowels(s) ==
    IF Len(s) < 2 THEN s
    ELSE IF s[1] \in Vowels /\ s[2] = s[1]
         THEN collapseVowels(Tail(s))
         ELSE <<s[1]>> \o collapseVowels(Tail(s))

\* the first substitution alone
_collapse_elongations_first(s) == collapse3(s)

_collapse_elongations(s) == collapseVowels(collapse3(s))

\* a normalization that decomposes and drops the marks before it
\* transliterates
_normalize_uz_marks_first(s0) ==
    LET s1 == SelectSeq(NFD(strip(s0)), LAMBDA ch : ch \notin Mn)
        s2 == _cyr_to_lat(s1)
        s3 == [i \in 1..Len(s2) |-> IF s2[i] \in _APOS THEN "'" ELSE s2[i]]
        s4 == replace(replace(s3, <<"o", "U+2019">>, <<"o", "'">>),
                      <<"g", "U+2019">>, <<"g", "'">>)
        s5 == lower(s4)
        s6 == SelectSeq(s5, LAMBDA ch : isalnum(ch) \/ ch \in {" ", "'", "-"})
        s7 == join(<<" ">>, split(s6))
    IN  _collapse_elongations(s7)

_normalize_uz(s0) ==
    LET s1 == _cyr_to_lat(strip(s0))
        s2 == SelectSeq(NFD(s1), LAMBDA ch : ch \notin Mn)
        s3 == [i \in 1..Len(s2) |-> IF s2[i] \in _APOS THEN "'" ELSE s2[i]]
        s4 == replace(replace(s3, <<"o", "U+2019">>, <<"o", "'">>),
                      <<"g", "U+2019">>, <<"g", "'">>)
        s5 == lower(s4)
        s6 == SelectSeq(s5, LAMBDA ch : isalnum(ch) \/ ch \in {" ", "'", "-"})
        s7 == join(<<" ">>, split(s6))
    IN  _collapse_elongations(s7)

\* U+0161 s-caron, U+010D c-caron, U+014B eng
_phonetic(s0) ==
    LET s1 == replace(s0, <<"s", "h">>, <<"U+0161">>)
        s2 == replace(s1, <<"c", "h">>, <<"U+010D">>)
        s3 == replace(s2, <<"n", "g">>, <<"U+014B">>)
        s4 == replace(s3, <<"k", "h">>, <<"x">>)
        s5 == replace(s4, <<"g", "'">>, <<"g">>)
    IN  replace(s5, <<"o", "'">>, <<"o">>)

_tokenize(fullname) ==
    LET parts == split(fullname)
    IN  concat([i \in 1..Len(parts) |->
                   SelectSeq(pieces(parts[i], {"-"}, <<>>), LAMBDA t : t # <<>>)])

Min2(x, y) == IF x <= y THEN x ELSE y
Min3(x, y, z) == Min2(x, Min2(y, z))
Max2(x, y) == IF x >= y THEN x ELSE y

\* row i of the table dp of _dl, from the two rows above it
RECURSIVE dlRow(_, _, _, _, _, _)
dlRow(a, b, i, prev, prev2, row) ==
    LET j == Len(row)
    IN  IF j > Len(b) THEN row
        ELSE LET cost == IF a[i] = b[j] THEN 0 ELSE 1
                 d1 == Min3(prev[j + 1] + 1, row[j] + 1, prev[j] + cost)
                 d2 == IF i > 1 /\ j > 1 /\ a[i] = b[j - 1] /\ a[i - 1] = b[j]
                       THEN Min2(d1, prev2[j - 1] + 1)
                       ELSE d1
             IN  dlRow(a, b, i, prev, prev2, Append(row, d2))

\* rows i..Len(a) of dp; prev and prev2 are rows i-1 and i-2 (1-indexed by j+1)
RECURSIVE dlRows(_, _, _, _, _)
dlRows(a, b, i, prev, prev2) ==
    IF i > Len(a) THEN prev
    ELSE dlRows(a, b, i + 1, dlRow(a, b, i, prev, prev2, <<i>>), prev)

_dl(a, b) ==
    IF a = b THEN 0
    ELSE LET row0 == [j \in 1..(Len(b) + 1) |-> j - 1]
         IN  dlRows(a, b, 1, row0, row0)[Len(b) + 1]

\* tiers that give one value to every distance up to two
tier_flat(x, y, d) ==
    IF d <= 2 THEN 85
    ELSE IF Len(x) >= 3 /\ startswith(y, x) THEN 75
    ELSE IF Len(x) >= 4 /\ contains(y, x) THEN 55
    ELSE 0

\* the tiers of _tier_similarity below the exact match, d being _dl(x, y)
tier(x, y, d) ==
    IF d = 1 THEN 85
    ELSE IF d = 2 THEN 70
    ELSE IF Len(x) >= 3 /\ startswith(y, x) THEN 75
    ELSE IF Len(x) >= 4 /\ contains(y, x) THEN 55
    ELSE 0

\* tiers without the test for an empty string
_tier_similarity_unchecked(x, y) ==
    IF x = y THEN 100
    ELSE tier(x, y, _dl(x, y))

_tier_similarity(x, y) ==
    IF x = <<>> \/ y = <<>> THEN 0
    ELSE IF x = y THEN 100
    ELSE tier(x, y, _dl(x, y))

\* an insertion that puts an item before the items of equal key
RECURSIVE insertDesc_before(_, _)
insertDesc_before(sorted, p) ==
    IF sorted = <<>> THEN <<p>>
    ELSE IF Head(sorted)[2] > p[2]
         THEN <<Head(sorted)>> \o insertDesc_before(Tail(sorted), p)
         ELSE <<p>> \o sorted

\* list.sort(key=..., reverse=True) of pairs <<x, key>>: by falling key, equal
\* keys in their original order
RECURSIVE insertDesc(_, _)
insertDesc(sorted, p) ==
    IF sorted = <<>> THEN <<p>>
    ELSE IF Head(sorted)[2] >= p[2]
         THEN <<Head(sorted)>> \o insertDesc(Tail(sorted), p)
         ELSE <<p>> \o sorted

RECURSIVE sortedDesc(_)
sortedDesc(ps) ==
    IF ps = <<>> THEN <<>>
    ELSE insertDesc(sortedDesc(SubSeq(ps, 1, Len(ps) - 1)), ps[Len(ps)])

\* sorted(xs, key=len, reverse=True)
sortedByLenDesc(xs) ==
    LET ps == sortedDesc([i \in 1..Len(xs) |-> <<xs[i], Len(xs[i])>>])
    IN  [i \in 1..Len(ps) |-> ps[i][1]]

\* a _strip_suffix that asks for a root of three characters
_strip_suffix_long(s) ==
    LET sufs == sortedByLenDesc(_COMMON_SUFFIXES)
        hit(i) == endswith(s, sufs[i]) /\ Len(s) > Len(sufs[i]) + 2
    IN  IF \E i \in 1..Len(sufs) : hit(i)
        THEN LET k == CHOOSE i \in 1..Len(sufs) :
                          hit(i) /\ \A h \in 1..(i - 1) : ~hit(h)
             IN  SubSeq(s, 1, Len(s) - Len(sufs[k]))
        ELSE s

_strip_suffix(s) ==
    LET sufs == sortedByLenDesc(_COMMON_SUFFIXES)
        hit(i) == endswith(s, sufs[i]) /\ Len(s) > Len(sufs[i]) + 1
    IN  IF \E i \in 1..Len(sufs) : hit(i)
        THEN LET k == CHOOSE i \in 1..Len(sufs) :
                          hit(i) /\ \A h \in 1..(i - 1) : ~hit(h)
             IN  SubSeq(s, 1, Len(s) - Len(sufs[k]))
        ELSE s

\* list(dict.fromkeys(xs)): first occurrences, in order
RECURSIVE dedup(_)
dedup(xs) ==
    IF xs = <<>> THEN <<>>
    ELSE LET init == dedup(SubSeq(xs, 1, Len(xs) - 1))
             x == xs[Len(xs)]
         IN  IF x \in SeqRange(init) THEN init ELSE Append(init, x)

_query_variants(q) ==
    LET v1 == _strip_suffix(q)
        v2 == IF v1 # q THEN _strip_suffix(v1) ELSE v1
    IN  dedup(<<q, v1, v2>>)

\* max(best, the three similarities of one query variant)
best_of(best, qv, given, surname, combined, use_combined) ==
    Max2(Max2(best, _tier_similarity(qv, given)),
         Max2(_tier_similarity(qv, surname),
              IF use_combined THEN _tier_similarity(qv, combined) ELSE 0))

\* the loop of _score_candidate over the query variants
RECURSIVE score_loop(_, _, _, _, _, _, _)
score_loop(variants, given, surname, combined, use_combined, use_phonetic, best) ==
    IF variants = <<>> THEN best
    ELSE score_loop(Tail(variants), given, surname, combined, use_combined, use_phonetic,
                    IF use_phonetic
                    THEN best_of(best, _phonetic(Head(variants)), _phonetic(given),
                                 _phonetic(surname), _phonetic(combined), use_combined)
                    ELSE best_of(best, Head(variants), given, surname, combined,
                                 use_combined))

\* _score_candidate after normalization: qn the query, toks the name's tokens
score_tokens(qn, toks, use_phonetic) ==
    IF toks = <<>> THEN 0
    ELSE score_loop(_query_variants(qn), toks[1],
                    IF Len(toks) > 1 THEN toks[Len(toks)] ELSE <<>>,
                    join(<<" ">>, toks), Len(qn) >= 6, use_phonetic, 0)

_score_candidate(query, full_name, use_phonetic) ==
    score_tokens(_normalize_uz(query), _tokenize(_normalize_uz(full_name)), use_phonetic)

score(query, full_name) == _score_candidate(query, full_name, TRUE)

\* the default floor min_score = 0.60, times 100
min_score == 60


\* the holders kept by filter_objects_by_holder, paired with their scores
\* scored.append((out, score)) when score >= min_score
scored_if(obj, sc) == IF sc >= min_score THEN <<<<obj, sc>>>> ELSE <<>>

RECURSIVE scored_items(_, _)
scored_items(query, items) ==
    IF items = <<>> THEN <<>>
    ELSE (IF Get(Head(items), "holder").t # "str" THEN <<>>
          ELSE scored_if(Head(items), score(query, Get(Head(items), "holder").s)))
         \o scored_items(query, Tail(items))

\* [o for o, _ in scored]
firsts(ps) == [i \in 1..Len(ps) |-> ps[i][1]]

\* filter_objects_by_holder(query, items) with the default arguments:
\* [exc |-> the exception raised, or "", list |-> the list returned]
filter_objects_by_holder(query, items) ==
    CASE items.t \in {"none", "num"} ->
             [exc |-> "TypeError", list |-> <<>>]
      [] items.t = "str" ->
             [exc |-> IF items.s = <<>> THEN "" ELSE "AttributeError", list |-> <<>>]
      [] items.t = "dict" ->
             [exc |-> IF DOMAIN items.d = {} THEN "" ELSE "AttributeError", list |-> <<>>]
      [] items.t = "list" ->
             IF \E i \in 1..Len(items.items) : items.items[i].t # "dict"
             THEN [exc |-> "AttributeError", list |-> <<>>]
             ELSE [exc |-> "",
                   list |-> firsts(sortedDesc(scored_items(query, items.items)))]

(***************************************************************************)
(* Redis: string values and channels.                                      *)
(***************************************************************************)
\* what redis.get gives for a key that is not there
Nil == [t |-> "nil"]
\* a stored or published string: the empty string, text that is not JSON,
\* or json.dumps(v)
EmptyStr == [t |-> "data", kind |-> "empty"]
BadJson == [t |-> "data", kind |-> "garbage"]
Json(v) == [t |-> "data", kind |-> "json", v |-> v]

\* json.loads(data): ok is FALSE on JSONDecodeError
json_loads(data) ==
    IF data.kind = "json" THEN [ok |-> TRUE, v |-> data.v]
    ELSE [ok |-> FALSE, v |-> None]

\* str(v) inside an f-string
fmt(v) ==
    CASE v.t = "str" -> v.s
      [] v.t = "num" -> <<ToString(v.n)>>
      [] OTHER -> <<"None">>

EVT_STREAM == <<"events:stream">>
\* the OTP channel named like the selection channel
OTP_CHANNEL_select(pid) == <<"select:">> \o pid
OTP_CHANNEL(pid) == <<"otp:">> \o pid
SEL_CHANNEL(sid) == <<"select:">> \o sid
SESSION_KEY(sid) == <<"session:">> \o sid

\* the waiters' timeout_sec, as make_transaction passes it
timeout_sec == 180

(***************************************************************************)
(* Bounds of the model.                                                    *)
(***************************************************************************)
\* messages a subscription holds unread
MaxInbox == 2
\* messages published on the reply channels by others than the API endpoints
MaxForeign == 1
\* seconds the clock advances in one step
Quantum == 90

Runs == {1, 2}
SessionIds == {<<"s1">>}
Queries == {<<"a","l","i">>, <<"z","z","z">>}
Amounts == {Num(5000)}

VARIABLES
    store,     \* Redis keys: the Session Store
    run,       \* each invocation of make_transaction: its position and locals
    subs,      \* the channel each run's pubsub is subscribed to, or <<>>
    inbox,     \* the messages each run's pubsub has received and not yet read,
               \* each {"type": "message", "channel": ..., "data": ...}
    evts,      \* the events each run has published on EVT_STREAM, in order
    calls,     \* the gateway calls each run has made, in order
    nextId,    \* the uuids handed out so far
    budget,    \* what the environment may still do: runs, foreign messages
    matcher_call  \* a call of the Name Matcher on its own: function, arguments,
               \* and the value returned once it is done

vars == <<store, run, subs, inbox, evts, calls, nextId, budget, matcher_call>>

NoChannel == <<>>

\* no call of the Name Matcher on its own
NoCall == [fn |-> "none", done |-> FALSE]

\* str(uuid.uuid4()): the n-th identifier, different from every other
uuid4(n) == <<"u" \o ToString(n)>>

IdleRun ==
    [pc |-> "idle", recipient_name |-> <<>>, amount |-> None, session_id |-> <<>>,
     token |-> None, user_id |-> None, rsid |-> <<>>, chosen |-> None,
     csid |-> <<>>, sender_card_id |-> None, card_num |-> None,
     payment_id |-> None, code |-> None, elapsed |-> 0,
     result |-> [status |-> "NONE"], exc |-> "", at |-> "",
     \* bookkeeping, read by no step of the program: what the store held when
     \* the credentials were read, whether a valid reply to the pending
     \* request was published in time, the channels the values came from
     saw |-> [state |-> "unread", raw |-> Nil], replied |-> FALSE, heard |-> <<>>]

\* positions inside a blocking gateway call (requests.get / requests.post)
InCall == {"in_get_recipient_sello", "in_get_card_sello",
           "in_get_recipient_sello_by_id", "in_p2p_prepay", "in_p2p_pay"}
\* positions at `await pubsub.subscribe(channel)`
AtSubscribe == {"subscribe_recipient", "subscribe_card", "subscribe_code"}
\* positions inside the polling loop of a waiter
InWait == {"wait_recipient", "wait_card", "wait_code"}
Ended == {"returned", "raised"}

\* the event loop is single-threaded: while a run is inside a blocking
\* gateway call no other coroutine of the server runs
LoopFreeFor(r) == \A q \in Runs \ {r} : run[q].pc \notin InCall

(***************************************************************************)
(* back/server.py: the Session Store read and the two waiters.             *)
(***************************************************************************)
\* await redis.get(key): an expired key reads like one never set
redis_get(key) == IF store[key].state = "live" THEN store[key].raw ELSE Nil

\* _get_creds, given what redis.get returned: <<token, user_id>>
_get_creds(raw) ==
    IF raw.t = "nil" \/ raw.kind = "empty" THEN <<None, None>>
    ELSE LET j == json_loads(raw)
         IN  IF ~j.ok \/ j.v.t # "dict" THEN <<None, None>>
             ELSE <<Get(j.v, "token"), Get(j.v, "user_id")>>

\* json.loads(msg.get("data") or "{}"), {} on JSONDecodeError
payload_of(data) ==
    LET j == json_loads(IF data.kind = "empty" THEN Json(Dict(<<>>)) ELSE data)
    IN  IF j.ok THEN j.v ELSE Dict(<<>>)

\* What one message does to a waiter: "value" (return v), "noise" (go on
\* polling) or "raise" (an AttributeError leaves the loop).
Noise == [out |-> "noise", v |-> None]
RaiseAttr == [out |-> "raise", v |-> None]

\* _wait_code without the .strip(): any non-empty code is returned as it came
wait_code_msg_nostrip(data) ==
    LET payload == payload_of(data)
    IN  IF payload.t # "dict" THEN RaiseAttr
        ELSE LET c == Or(Get(payload, "code"), Str(<<>>))
             IN  IF c.t # "str" THEN RaiseAttr
                 ELSE IF c.s # <<>> THEN [out |-> "value", v |-> c] ELSE Noise

\* (payload.get("code") or "").strip()
wait_code_msg(data) ==
    LET payload == payload_of(data)
    IN  IF payload.t # "dict" THEN RaiseAttr
        ELSE LET c == Or(Get(payload, "code"), Str(<<>>))
             IN  IF c.t # "str" THEN RaiseAttr
                 ELSE IF strip(c.s) # <<>>
                      THEN [out |-> "value", v |-> Str(strip(c.s))]
                      ELSE Noise

\* a selection waiter that looks at card_id first
wait_selected_msg_cardfirst(data) ==
    LET payload == payload_of(data)
    IN  IF payload.t # "dict" THEN RaiseAttr
        ELSE LET c == Or(Or(Get(payload, "card_id"), Get(payload, "recipient_id")),
                         Str(<<>>))
             IN  IF c.t # "str" THEN RaiseAttr
                 ELSE IF strip(c.s) # <<>>
                      THEN [out |-> "value", v |-> Str(strip(c.s))]
                      ELSE Noise

\* (payload.get("recipient_id") or payload.get("card_id") or "").strip()
wait_selected_msg(data) ==
    LET payload == payload_of(data)
    IN  IF payload.t # "dict" THEN RaiseAttr
        ELSE LET c == Or(Or(Get(payload, "recipient_id"), Get(payload, "card_id")),
                         Str(<<>>))
             IN  IF c.t # "str" THEN RaiseAttr
                 ELSE IF strip(c.s) # <<>>
                      THEN [out |-> "value", v |-> Str(strip(c.s))]
                      ELSE Noise

\* a deadline that has passed as soon as the time is up
TimedOut_reached(elapsed) == elapsed >= timeout_sec

\* time.monotonic() - start > timeout_sec
TimedOut(elapsed) == elapsed > timeout_sec

\* a waiter with no finally clause: the subscription stays
Unsubscribed_leak(r) == subs

\* finally: await pubsub.unsubscribe(channel); await pubsub.close()
Unsubscribed(r) == [subs EXCEPT ![r] = NoChannel]
Closed(r) == [inbox EXCEPT ![r] = <<>>]

(***************************************************************************)
(* back/server.py: make_transaction, cut at its suspension points.  Each   *)
(* piece takes the run's locals s and what the awaited call returned, and  *)
(* gives the new locals, the gateway calls begun and the events published. *)
(***************************************************************************)
Step(s, newCalls, newEvts) == [run |-> s, calls |-> newCalls, evts |-> newEvts]
Returned(s, res) == [s EXCEPT !.pc = "returned", !.result = res, !.elapsed = 0]
\* exception exc leaves make_transaction, raised in function at
Raised(s, exc, at) == [s EXCEPT !.pc = "raised", !.exc = exc, !.at = at, !.elapsed = 0]
Call(op, args) == [op |-> op, args |-> args, ret |-> [t |-> "pending"]]
Error(stage, error) == [status |-> "ERROR", stage |-> stage, error |-> error]

\* "and" written for "or": one missing credential passes
CredsMissing_and(token, user_id) == ~Truthy(token) /\ ~Truthy(user_id)

\* not token or not user_id
CredsMissing(token, user_id) == ~Truthy(token) \/ ~Truthy(user_id)

\* a start that calls with what it read but keeps nothing for later
seg_creds_nosnap(s, creds) ==
    IF CredsMissing(creds[1], creds[2])
    THEN Step(Returned(s, Error("creds", Str(<<"Missing credentials for session">>))),
              <<>>, <<>>)
    ELSE Step([s EXCEPT !.pc = "in_get_recipient_sello"],
              <<Call("get_recipient_sello", [auth_token |-> creds[1]])>>, <<>>)

\* lines 109-112
seg_creds(s, creds) ==
    LET token == creds[1]
        user_id == creds[2]
    IN  IF CredsMissing(token, user_id)
        THEN Step(Returned(s, Error("creds", Str(<<"Missing credentials for session">>))),
                  <<>>, <<>>)
        ELSE Step([s EXCEPT !.pc = "in_get_recipient_sello",
                            !.token = token, !.user_id = user_id],
                  <<Call("get_recipient_sello", [auth_token |-> token])>>, <<>>)

\* s[-4:]
last4(s) == SubSeq(s, Max2(1, Len(s) - 3), Len(s))

\* a map_rec that forgets the slice and passes the account number on
map_rec_fullpan(r) ==
    [id |-> Get(r, "id"),
     name |-> Or(Or(Get(r, "name"), Get(r, "holder")), Str(<<"Unknown">>)),
     masked |-> Or(Or(Get(r, "masked"), Get(r, "panMasked")), Str(<<"****">>)),
     pan_last4 |-> Get(r, "pan")]

\* map_rec; the account numbers of the model are strings
map_rec(r) ==
    [id |-> Get(r, "id"),
     name |-> Or(Or(Get(r, "name"), Get(r, "holder")), Str(<<"Unknown">>)),
     masked |-> Or(Or(Get(r, "masked"), Get(r, "panMasked")), Str(<<"****">>)),
     pan_last4 |-> IF Truthy(Get(r, "pan"))
                   THEN Str(last4(Or(Get(r, "pan"), Str(<<>>)).s))
                   ELSE None]

map_card(c) ==
    [id |-> Get(c, "id"),
     holder |-> Or(Get(c, "holder"), Str(<<"Card">>)),
     masked |-> Or(Get(c, "masked"), Str(<<"****">>)),
     bank |-> Get(c, "bank"),
     main |-> Get(c, "main"),
     balance |-> Get(c, "balance"),
     currency |-> Get(c, "currency")]

\* [f(x) for x in (xs or []) if isinstance(x, dict) and x.get("id")]
with_id(xs) ==
    IF xs.t # "list" THEN <<>>
    ELSE SelectSeq(xs.items, LAMBDA x : x.t = "dict" /\ Truthy(Get(x, "id")))

\* the recipient step without the test for an empty list: the choices are
\* published even when there are none
after_filter_noempty(s, f, n) ==
    IF f.exc # "" THEN Step(Raised(s, f.exc, "filter_objects_by_holder"), <<>>, <<>>)
    ELSE Step([s EXCEPT !.pc = "subscribe_recipient", !.rsid = uuid4(n),
                        !.replied = FALSE],
              <<>>,
              <<[type |-> "RECIPIENT_CHOICES", session_id |-> uuid4(n),
                 list |-> [i \in 1..Len(with_id(List(f.list))) |->
                              map_rec(with_id(List(f.list))[i])],
                 amount |-> s.amount]>>)

\* lines 116-137: f is what filter_objects_by_holder did
after_filter(s, f, n) ==
    LET recs == List(f.list)
        kept == with_id(recs)
        rsid == uuid4(n)
    IN  IF f.exc # "" THEN Step(Raised(s, f.exc, "filter_objects_by_holder"), <<>>, <<>>)
        ELSE IF Len(recs.items) = 0
        THEN Step(Returned(s, [status |-> "NO_RECIPIENTS", stage |-> "recipient_list",
                               message |-> "No recipients found matching the name."]),
                  <<>>, <<>>)
        ELSE IF IsError(recs)
        THEN Step(Returned(s, Error("recipient_list", Get(recs, "error"))), <<>>, <<>>)
        ELSE Step([s EXCEPT !.pc = "subscribe_recipient", !.rsid = rsid,
                            !.replied = FALSE],
                  <<>>,
                  <<[type |-> "RECIPIENT_CHOICES", session_id |-> rsid,
                     list |-> [i \in 1..Len(kept) |-> map_rec(kept[i])],
                     amount |-> s.amount]>>)

\* lines 112-137: the recipient list came back; filter, map, publish
seg_recipients(s, listed, n) ==
    after_filter(s, filter_objects_by_holder(s.recipient_name, listed), n)

\* lines 138-144: _wait_selected(rsid) returned chosen (None on timeout)
seg_after_recipient(s, chosen) ==
    IF ~Truthy(chosen)
    THEN Step(Returned(s, [status |-> "TIMEOUT", stage |-> "select_recipient",
                           message |-> "Recipient not selected in time."]),
              <<>>, <<>>)
    ELSE Step([s EXCEPT !.pc = "in_get_card_sello", !.chosen = chosen, !.elapsed = 0],
              <<Call("get_card_sello", [auth_token |-> s.token, user_id |-> s.user_id])>>,
              <<>>)

\* a card step that takes the only card without asking
seg_cards_auto(s, cards, n) ==
    IF IsError(cards)
    THEN Step(Returned(s, Error("card_list", Get(cards, "error"))), <<>>, <<>>)
    ELSE IF Len(with_id(cards)) = 1
    THEN Step([s EXCEPT !.pc = "in_get_recipient_sello_by_id",
                        !.sender_card_id = Get(with_id(cards)[1], "id")],
              <<Call("get_recipient_sello_by_id",
                     [recipient_id |-> s.chosen, auth_token |-> s.token])>>,
              <<>>)
    ELSE Step([s EXCEPT !.pc = "subscribe_card", !.csid = uuid4(n), !.replied = FALSE],
              <<>>,
              <<[type |-> "CARD_CHOICES", session_id |-> uuid4(n),
                 list |-> [i \in 1..Len(with_id(cards)) |-> map_card(with_id(cards)[i])],
                 amount |-> s.amount]>>)

\* a card step that asks under the id of the recipient step
seg_cards_sameid(s, cards, n) ==
    IF IsError(cards)
    THEN Step(Returned(s, Error("card_list", Get(cards, "error"))), <<>>, <<>>)
    ELSE Step([s EXCEPT !.pc = "subscribe_card", !.csid = s.rsid, !.replied = FALSE],
              <<>>,
              <<[type |-> "CARD_CHOICES", session_id |-> s.rsid,
                 list |-> [i \in 1..Len(with_id(cards)) |-> map_card(with_id(cards)[i])],
                 amount |-> s.amount]>>)

\* lines 144-165: the card list came back; map, publish
seg_cards(s, cards, n) ==
    LET kept == with_id(cards)
        csid == uuid4(n)
    IN  IF IsError(cards)
        THEN Step(Returned(s, Error("card_list", Get(cards, "error"))), <<>>, <<>>)
        ELSE Step([s EXCEPT !.pc = "subscribe_card", !.csid = csid, !.replied = FALSE],
                  <<>>,
                  <<[type |-> "CARD_CHOICES", session_id |-> csid,
                     list |-> [i \in 1..Len(kept) |-> map_card(kept[i])],
                     amount |-> s.amount]>>)

\* a card step that lists the cards again when nobody chose in time
seg_after_card_retry(s, sender_card_id) ==
    IF ~Truthy(sender_card_id)
    THEN Step([s EXCEPT !.pc = "in_get_card_sello", !.elapsed = 0],
              <<Call("get_card_sello", [auth_token |-> s.token, user_id |-> s.user_id])>>,
              <<>>)
    ELSE Step([s EXCEPT !.pc = "in_get_recipient_sello_by_id",
                        !.sender_card_id = sender_card_id, !.elapsed = 0],
              <<Call("get_recipient_sello_by_id",
                     [recipient_id |-> s.chosen, auth_token |-> s.token])>>,
              <<>>)

\* lines 166-171: _wait_selected(csid) returned sender_card_id
seg_after_card(s, sender_card_id) ==
    IF ~Truthy(sender_card_id)
    THEN Step(Returned(s, [status |-> "TIMEOUT", stage |-> "select_card",
                           message |-> "Card not selected in time."]),
              <<>>, <<>>)
    ELSE Step([s EXCEPT !.pc = "in_get_recipient_sello_by_id",
                        !.sender_card_id = sender_card_id, !.elapsed = 0],
              <<Call("get_recipient_sello_by_id",
                     [recipient_id |-> s.chosen, auth_token |-> s.token])>>,
              <<>>)

\* lines 171-176: the recipient came back by id; prepay begins
seg_lookup(s, rec) ==
    IF IsError(rec)
    THEN Step(Returned(s, Error("lookup", Get(rec, "error"))), <<>>, <<>>)
    ELSE IF rec.t # "dict"
    THEN Step(Raised(s, "AttributeError", "make_transaction"), <<>>, <<>>)
    ELSE LET card_num == Get(rec, "pan")
         IN  Step([s EXCEPT !.pc = "in_p2p_prepay", !.card_num = card_num],
                  <<Call("p2p_prepay",
                         [amount |-> s.amount, recipient_id |-> s.chosen,
                          card_pan |-> card_num, sender_card_id |-> s.sender_card_id,
                          auth_token |-> s.token])>>,
                  <<>>)

\* a prepay step that waits for the code without announcing it
seg_prepay_silent(s, pre) ==
    IF IsError(pre)
    THEN Step(Returned(s, Error("prepay", Get(pre, "error"))), <<>>, <<>>)
    ELSE IF pre.t # "dict"
    THEN Step(Raised(s, "AttributeError", "make_transaction"), <<>>, <<>>)
    ELSE IF ~Truthy(Get(pre, "id"))
    THEN Step(Returned(s, Error("prepay", Str(<<"No payment_id from prepay">>))),
              <<>>, <<>>)
    ELSE Step([s EXCEPT !.pc = "subscribe_code", !.payment_id = Get(pre, "id"),
                        !.replied = FALSE],
              <<>>, <<>>)

\* lines 176-185: prepay came back; publish CODE_REQUIRED
seg_prepay(s, pre) ==
    IF IsError(pre)
    THEN Step(Returned(s, Error("prepay", Get(pre, "error"))), <<>>, <<>>)
    ELSE IF pre.t # "dict"
    THEN Step(Raised(s, "AttributeError", "make_transaction"), <<>>, <<>>)
    ELSE LET payment_id == Get(pre, "id")
         IN  IF ~Truthy(payment_id)
             THEN Step(Returned(s, Error("prepay", Str(<<"No payment_id from prepay">>))),
                       <<>>, <<>>)
             ELSE Step([s EXCEPT !.pc = "subscribe_code", !.payment_id = payment_id,
                                 !.replied = FALSE],
                       <<>>,
                       <<[type |-> "CODE_REQUIRED", payment_id |-> payment_id,
                          expires_in |-> timeout_sec]>>)

\* lines 188-193: _wait_code(payment_id) returned code
seg_after_code(s, code) ==
    IF ~Truthy(code)
    THEN Step(Returned(s, [status |-> "TIMEOUT", stage |-> "await_code",
                           payment_id |-> s.payment_id,
                           message |-> "No code within 3 minutes. Try again."]),
              <<>>, <<>>)
    ELSE Step([s EXCEPT !.pc = "in_p2p_pay", !.code = code, !.elapsed = 0],
              <<Call("p2p_pay", [payment_id |-> s.payment_id, code |-> code,
                                 auth_token |-> s.token])>>,
              <<>>)

\* a success result that names the card where the recipient belongs
Confirmed_card(s, pay) ==
    [status |-> "CONFIRMED", payment_id |-> s.payment_id, result |-> pay,
     receiver |-> s.sender_card_id]

\* the result of a run whose every step succeeded (line 198)
Confirmed(s, pay) ==
    [status |-> "CONFIRMED", payment_id |-> s.payment_id, result |-> pay,
     receiver |-> s.chosen]

\* a pay step whose error result forgets the payment id
seg_pay_noid(s, pay) ==
    IF IsError(pay)
    THEN Step(Returned(s, Error("pay", Get(pay, "error"))), <<>>, <<>>)
    ELSE Step(Returned(s, Confirmed(s, pay)), <<>>, <<>>)

\* lines 193-198: pay came back
seg_pay(s, pay) ==
    IF IsError(pay)
    THEN Step(Returned(s, [status |-> "ERROR", stage |-> "pay",
                           payment_id |-> s.payment_id, error |-> Get(pay, "error")]),
              <<>>, <<>>)
    ELSE Step(Returned(s, Confirmed(s, pay)), <<>>, <<>>)

\* the channel on which the run's pending request is answered
RequestChannel(s) ==
    CASE s.pc \in {"subscribe_recipient", "wait_recipient"} -> SEL_CHANNEL(s.rsid)
      [] s.pc \in {"subscribe_card", "wait_card"} -> SEL_CHANNEL(s.csid)
      [] s.pc \in {"subscribe_code", "wait_code"} -> OTP_CHANNEL(fmt(s.payment_id))
      [] OTHER -> NoChannel

(***************************************************************************)
(* What the collaborators may answer.                                      *)
(***************************************************************************)
AliValiyev == <<"A","l","i"," ","V","a","l","i","y","e","v">>
Pan1 == <<"8","6","0","0","1","2">>
Pan2 == <<"9","8","6","0","3","4">>
Upstream == Dict([error |-> Str(<<"503 Server Error">>)])

R1 == Dict([id |-> Str(<<"r1">>), holder |-> Str(AliValiyev), pan |-> Str(Pan1)])
R2 == Dict([id |-> Str(<<"r2">>), holder |-> Str(<<"V","a","l","i">>), pan |-> Str(Pan2)])
R3 == Dict([holder |-> Str(<<"A","l","i">>)])
R4 == Dict([id |-> Str(<<"r4">>), holder |-> Num(7)])

\* get_recipient_sello: resp.json(), whatever JSON it is, or {"error": str(e)}
RecipientResponses ==
    {List(<<R2, R1, R4>>), List(<<R3>>), List(<<>>), Upstream, None,
     List(<<Str(<<"x">>)>>)}

Card1 == Dict([id |-> Str(<<"c1">>), holder |-> Str(AliValiyev), masked |-> Str(<<"8600**12">>)])
Card2 == Dict([id |-> Str(<<"c2">>), holder |-> Str(AliValiyev), masked |-> Str(<<"9860**34">>)])

\* get_card_sello: the list it builds, or {"error": str(e)}
CardResponses == {List(<<Card1>>), List(<<Card1, Card2>>), Upstream}

\* get_recipient_sello_by_id: r.json() or {"error": str(e)}
LookupResponses ==
    {Dict([id |-> Str(<<"r1">>), pan |-> Str(Pan1)]), Dict([id |-> Str(<<"r1">>)]),
     Upstream, List(<<>>)}

\* p2p_prepay: r.json() or {"error": str(e)}
PrepayResponses ==
    {Dict([id |-> Str(<<"p1">>)]), Dict([status |-> Str(<<"CREATED">>)]),
     Upstream, List(<<>>)}

\* p2p_pay: r.json() or {"error": str(e)}
PayResponses == {Dict([status |-> Str(<<"SUCCESS">>)]), Upstream}

\* ChooseBody: recipient_id and card_id are optional strings
ChooseBodies ==
    [recipient_id : {None, Str(<<" ">>), Str(<<" ", "r1", " ">>)},
     card_id : {None, Str(<<>>), Str(<<"c1">>)}]

\* ConfirmBody: code is a string
ConfirmBodies == [code : {Str(<<" ">>), Str(<<" ", "7", " ">>)}]

\* what another publisher may put on a reply channel
ForeignData ==
    {BadJson, EmptyStr, Json(List(<<>>)), Json(Dict(<<>>)),
     Json(Dict([recipient_id |-> Num(5), code |-> Num(5)])),
     Json(Dict([recipient_id |-> Num(0), code |-> None])),
     Json(Dict([recipient_id |-> Str(<<" ">>), card_id |-> Str(<<"c1">>),
                code |-> Str(<<"\t">>)])),
     Json(Dict([card_id |-> Str(<<" ", "c2">>), code |-> Str(<<" ", "8", " ">>)]))}

\* what another writer may leave under a session key
ForeignRaw ==
    {BadJson, EmptyStr, Json(List(<<>>)), Json(Dict([token |-> Str(<<"tok">>)])),
     Json(Dict([user_id |-> Str(<<"42">>)]))}

(***************************************************************************)
(* The state machine.                                                      *)
(***************************************************************************)
Keys == {SESSION_KEY(sid) : sid \in SessionIds}

InitRuns(b) ==
    /\ store = [k \in Keys |-> [state |-> "never", raw |-> Nil]]
    /\ run = [r \in Runs |-> IdleRun]
    /\ subs = [r \in Runs |-> NoChannel]
    /\ inbox = [r \in Runs |-> <<>>]
    /\ evts = [r \in Runs |-> <<>>]
    /\ calls = [r \in Runs |-> <<>>]
    /\ nextId = 1
    /\ budget = b

InitWith(b) == InitRuns(b) /\ matcher_call = NoCall

\* one invocation of the tool; any number of foreign messages up to the bound
Init == InitWith([runs |-> 1, foreign |-> MaxForeign])

\* the last call, which was pending, has returned ret
Completed(cs, ret) == [cs EXCEPT ![Len(cs)].ret = ret]

Apply(r, step) ==
    /\ run' = [run EXCEPT ![r] = step.run]
    /\ calls' = [calls EXCEPT ![r] = @ \o step.calls]
    /\ evts' = [evts EXCEPT ![r] = @ \o step.evts]

ApplyReturn(r, ret, step) ==
    /\ run' = [run EXCEPT ![r] = step.run]
    /\ calls' = [calls EXCEPT ![r] = Completed(@, ret) \o step.calls]
    /\ evts' = [evts EXCEPT ![r] = @ \o step.evts]
    /\ nextId' = IF step.run.pc \in {"subscribe_recipient", "subscribe_card"}
                 THEN nextId + 1
                 ELSE nextId

\* app.py chat_endpoint: redis.set(SESSION_KEY(session_id), {token, user_id}, ex=300)
\* under a fresh session id; the bearer token may be empty
chat_endpoint(sid, token) ==
    /\ store[SESSION_KEY(sid)].state = "never"
    /\ store' = [store EXCEPT ![SESSION_KEY(sid)] =
                    [state |-> "live",
                     raw |-> Json(Dict([token |-> Str(token), user_id |-> Str(<<"42">>)]))]]
    /\ UNCHANGED <<run, subs, inbox, evts, calls, nextId, budget, matcher_call>>

\* another writer of the shared store leaves something else under the key
StoreWrite(key, raw) ==
    /\ store[key].state = "never"
    /\ store' = [store EXCEPT ![key] = [state |-> "live", raw |-> raw]]
    /\ UNCHANGED <<run, subs, inbox, evts, calls, nextId, budget, matcher_call>>

\* the key's TTL runs out
Expire(key) ==
    /\ store[key].state = "live"
    /\ store' = [store EXCEPT ![key] = [state |-> "expired", raw |-> Nil]]
    /\ UNCHANGED <<run, subs, inbox, evts, calls, nextId, budget, matcher_call>>

\* a key that was set is set again: the session's next chat turn, or
\* another writer, while runs may be under way
StoreOverwrite(key, raw) ==
    /\ store[key].state # "never"
    /\ store[key].raw # raw
    /\ store' = [store EXCEPT ![key] = [state |-> "live", raw |-> raw]]
    /\ UNCHANGED <<run, subs, inbox, evts, calls, nextId, budget, matcher_call>>

\* the agent calls the tool make_transaction(recipient_name, amount, session_id)
Invoke(r, recipient_name, amount, session_id) ==
    /\ budget.runs > 0
    /\ run[r].pc = "idle"
    /\ \A q \in Runs : q < r => run[q].pc # "idle"
    /\ run' = [run EXCEPT ![r] = [@ EXCEPT !.pc = "get_creds",
                                            !.recipient_name = recipient_name,
                                            !.amount = amount,
                                            !.session_id = session_id]]
    /\ budget' = [budget EXCEPT !.runs = @ - 1]
    /\ UNCHANGED <<store, subs, inbox, evts, calls, nextId, matcher_call>>

\* line 109: await _get_creds(session_id) completes
GetCreds(r) ==
    /\ run[r].pc = "get_creds"
    /\ LoopFreeFor(r)
    /\ Apply(r, seg_creds([run[r] EXCEPT !.saw = store[SESSION_KEY(run[r].session_id)]],
                          _get_creds(redis_get(SESSION_KEY(run[r].session_id)))))
    /\ UNCHANGED <<store, subs, inbox, nextId, budget, matcher_call>>

\* get_recipient_sello returns
RecipientsReturn(r, listed) ==
    /\ run[r].pc = "in_get_recipient_sello"
    /\ ApplyReturn(r, listed, seg_recipients(run[r], listed, nextId))
    /\ UNCHANGED <<store, subs, inbox, budget, matcher_call>>

\* get_card_sello returns
CardsReturn(r, cards) ==
    /\ run[r].pc = "in_get_card_sello"
    /\ ApplyReturn(r, cards, seg_cards(run[r], cards, nextId))
    /\ UNCHANGED <<store, subs, inbox, budget, matcher_call>>

\* get_recipient_sello_by_id returns
LookupReturn(r, rec) ==
    /\ run[r].pc = "in_get_recipient_sello_by_id"
    /\ ApplyReturn(r, rec, seg_lookup(run[r], rec))
    /\ UNCHANGED <<store, subs, inbox, budget, matcher_call>>

\* p2p_prepay returns
PrepayReturn(r, pre) ==
    /\ run[r].pc = "in_p2p_prepay"
    /\ ApplyReturn(r, pre, seg_prepay(run[r], pre))
    /\ UNCHANGED <<store, subs, inbox, budget, matcher_call>>

\* p2p_pay returns
PayReturn(r, pay) ==
    /\ run[r].pc = "in_p2p_pay"
    /\ ApplyReturn(r, pay, seg_pay(run[r], pay))
    /\ UNCHANGED <<store, subs, inbox, budget, matcher_call>>

\* lines 39-42 / 61-64: await pubsub.subscribe(channel); start = time.monotonic()
Subscribe(r) ==
    /\ run[r].pc \in AtSubscribe
    /\ LoopFreeFor(r)
    /\ subs' = [subs EXCEPT ![r] = RequestChannel(run[r])]
    /\ run' = [run EXCEPT ![r] =
                  [@ EXCEPT !.elapsed = 0,
                            !.pc = CASE @ = "subscribe_recipient" -> "wait_recipient"
                                     [] @ = "subscribe_card" -> "wait_card"
                                     [] @ = "subscribe_code" -> "wait_code"]]
    /\ UNCHANGED <<store, inbox, evts, calls, nextId, budget, matcher_call>>

\* the run's locals when the waiter has read h: a value is noted with the
\* channel it came on
Heard(r, h) ==
    [run[r] EXCEPT !.heard = IF h.out = "value" THEN Append(@, subs[r]) ELSE @]

\* a waiter that compares the time with its deadline only after a poll that
\* brought no message
WaiterTurn_idle(r, h, waiter, step) ==
    IF h.out = "value" \/ h.out = "raise"
          \/ (TimedOut(run[r].elapsed) /\ inbox[r] = <<>>)
    THEN /\ Apply(r, IF h.out = "raise"
                     THEN Step(Raised(run[r], "AttributeError", waiter), <<>>, <<>>)
                     ELSE step)
         /\ subs' = Unsubscribed(r)
         /\ inbox' = Closed(r)
    ELSE /\ inbox' = [inbox EXCEPT ![r] = IF @ = <<>> THEN @ ELSE Tail(@)]
         /\ UNCHANGED <<run, calls, evts, subs>>

\* what the waiter does after one get_message: h is the message's effect
\* (Noise when there was none), waiter the function, step what the caller
\* does with the waiter's return value
WaiterTurn(r, h, waiter, step) ==
    IF h.out = "value" \/ h.out = "raise" \/ TimedOut(run[r].elapsed)
    THEN /\ Apply(r, IF h.out = "raise"
                     THEN Step(Raised(run[r], "AttributeError", waiter), <<>>, <<>>)
                     ELSE step)
         /\ subs' = Unsubscribed(r)
         /\ inbox' = Closed(r)
    ELSE /\ inbox' = [inbox EXCEPT ![r] = IF @ = <<>> THEN @ ELSE Tail(@)]
         /\ UNCHANGED <<run, calls, evts, subs>>

\* one turn of the loop of _wait_selected (lines 66-80)
WaitSelectedPoll(r) ==
    /\ run[r].pc \in {"wait_recipient", "wait_card"}
    /\ LoopFreeFor(r)
    /\ LET h == IF inbox[r] = <<>> THEN Noise ELSE wait_selected_msg(Head(inbox[r]).data)
       IN  IF run[r].pc = "wait_recipient"
           THEN WaiterTurn(r, h, "_wait_selected", seg_after_recipient(Heard(r, h), h.v))
           ELSE WaiterTurn(r, h, "_wait_selected", seg_after_card(Heard(r, h), h.v))
    /\ UNCHANGED <<store, nextId, budget, matcher_call>>

\* one turn of the loop of _wait_code (lines 44-58)
WaitCodePoll(r) ==
    /\ run[r].pc = "wait_code"
    /\ LoopFreeFor(r)
    /\ LET h == IF inbox[r] = <<>> THEN Noise ELSE wait_code_msg(Head(inbox[r]).data)
       IN  WaiterTurn(r, h, "_wait_code", seg_after_code(Heard(r, h), h.v))
    /\ UNCHANGED <<store, nextId, budget, matcher_call>>

\* the clock advances for every waiter that has not yet seen its deadline pass
Tick ==
    /\ \E r \in Runs : run[r].pc \in InWait /\ ~TimedOut(run[r].elapsed)
    /\ run' = [r \in Runs |->
                  IF run[r].pc \in InWait /\ ~TimedOut(run[r].elapsed)
                  THEN [run[r] EXCEPT !.elapsed = @ + Quantum]
                  ELSE run[r]]
    /\ UNCHANGED <<store, subs, inbox, evts, calls, nextId, budget, matcher_call>>

\* the ids the broadcast channel has shown to the UI
AnnouncedIds ==
    UNION {{IF "session_id" \in DOMAIN evts[r][i]
            THEN evts[r][i].session_id
            ELSE fmt(evts[r][i].payment_id) : i \in 1..Len(evts[r])} : r \in Runs}

\* whether data, on the channel of the pending request of s, is a valid reply
ValidFor(s, data) ==
    IF s.pc \in {"subscribe_code", "wait_code"}
    THEN wait_code_msg(data).out = "value"
    ELSE wait_selected_msg(data).out = "value"

\* redis.publish(channel, data): every subscription of the channel gets it.
\* A run notes that a valid reply to its pending request was published
\* after the request and before its deadline.
Publish(channel, data) ==
    /\ \A r \in Runs : subs[r] = channel => Len(inbox[r]) < MaxInbox
    /\ inbox' = [r \in Runs |->
                    IF subs[r] = channel
                    THEN Append(inbox[r], [type |-> "message", channel |-> channel,
                                           data |-> data])
                    ELSE inbox[r]]
    /\ run' = [r \in Runs |->
                  IF /\ run[r].pc \in AtSubscribe \cup InWait
                     /\ RequestChannel(run[r]) = channel
                     /\ ~TimedOut(run[r].elapsed)
                     /\ ValidFor(run[r], data)
                  THEN [run[r] EXCEPT !.replied = TRUE]
                  ELSE run[r]]

\* app.py choose_item: [status, payload]
choose_item_response(body) ==
    LET has_r == body.recipient_id.t = "str"
        has_c == body.card_id.t = "str"
        rid == IF has_r THEN strip(body.recipient_id.s) ELSE <<>>
        cid == IF has_c THEN strip(body.card_id.s) ELSE <<>>
    IN  IF has_r /\ rid = <<>> THEN [status |-> 400, payload |-> Dict(<<>>)]
        ELSE IF has_c /\ cid = <<>> THEN [status |-> 400, payload |-> Dict(<<>>)]
        ELSE IF ~has_r /\ ~has_c THEN [status |-> 400, payload |-> Dict(<<>>)]
        ELSE [status |-> 200,
              payload |-> IF has_r /\ has_c
                          THEN Dict([recipient_id |-> Str(rid), card_id |-> Str(cid)])
                          ELSE IF has_r THEN Dict([recipient_id |-> Str(rid)])
                          ELSE Dict([card_id |-> Str(cid)])]

\* POST /v1/transactions/choose/{session_id}
choose_item(session_id, body) ==
    /\ LET resp == choose_item_response(body)
       IN  IF resp.status = 200
           THEN Publish(SEL_CHANNEL(session_id), Json(resp.payload))
           ELSE UNCHANGED <<run, inbox>>
    /\ UNCHANGED <<store, subs, evts, calls, nextId, budget, matcher_call>>

\* a confirm_transaction that publishes the code as it came
confirm_transaction_response_asis(body) ==
    [status |-> 200, payload |-> Dict([code |-> body.code])]

\* app.py confirm_transaction: [status, payload]
confirm_transaction_response(body) ==
    LET code == strip(Or(body.code, Str(<<>>)).s)
    IN  IF code = <<>> THEN [status |-> 400, payload |-> Dict(<<>>)]
        ELSE [status |-> 200, payload |-> Dict([code |-> Str(code)])]

\* POST /v1/transactions/{payment_id}/confirm
confirm_transaction(payment_id, body) ==
    /\ LET resp == confirm_transaction_response(body)
       IN  IF resp.status = 200
           THEN Publish(OTP_CHANNEL(payment_id), Json(resp.payload))
           ELSE UNCHANGED <<run, inbox>>
    /\ UNCHANGED <<store, subs, evts, calls, nextId, budget, matcher_call>>

\* another client of Redis publishes on a reply channel
ForeignPublish(channel, data) ==
    /\ budget.foreign > 0
    /\ budget' = [budget EXCEPT !.foreign = @ - 1]
    /\ Publish(channel, data)
    /\ UNCHANGED <<store, subs, evts, calls, nextId, matcher_call>>

Next ==
    \/ \E sid \in SessionIds, token \in {<<"tok">>, <<>>} : chat_endpoint(sid, token)
    \/ \E k \in Keys, raw \in ForeignRaw : StoreWrite(k, raw)
    \/ \E k \in Keys : Expire(k)
    \/ \E r \in Runs, q \in Queries, a \in Amounts, sid \in SessionIds : Invoke(r, q, a, sid)
    \/ \E r \in Runs : GetCreds(r)
    \/ \E r \in Runs, x \in RecipientResponses : RecipientsReturn(r, x)
    \/ \E r \in Runs, x \in CardResponses : CardsReturn(r, x)
    \/ \E r \in Runs, x \in LookupResponses : LookupReturn(r, x)
    \/ \E r \in Runs, x \in PrepayResponses : PrepayReturn(r, x)
    \/ \E r \in Runs, x \in PayResponses : PayReturn(r, x)
    \/ \E r \in Runs : Subscribe(r)
    \/ \E r \in Runs : WaitSelectedPoll(r)
    \/ \E r \in Runs : WaitCodePoll(r)
    \/ Tick
    \/ \E id \in AnnouncedIds, body \in ChooseBodies : choose_item(id, body)
    \/ \E id \in AnnouncedIds, body \in ConfirmBodies : confirm_transaction(id, body)
    \/ \E id \in AnnouncedIds, data \in ForeignData :
          \/ ForeignPublish(SEL_CHANNEL(id), data)
          \/ ForeignPublish(OTP_CHANNEL(id), data)

Spec == Init /\ [][Next]_vars

(***************************************************************************)
(* Two invocations at once.  The gateway answers every call well, so both  *)
(* runs reach their waits; prepay may answer with a payment id that reads  *)
(* like an id of a selection step; the endpoints are the only publishers.  *)
(***************************************************************************)
ConcPrepayResponses == {Dict([id |-> Str(uuid4(1))])}
ConcChooseBodies ==
    {[recipient_id |-> Str(<<"r1">>), card_id |-> Str(<<"c1">>)]}
ConcConfirmBodies == {[code |-> Str(<<"7">>)]}

InitConc == InitWith([runs |-> 2, foreign |-> 0])

NextConc ==
    \/ \E sid \in SessionIds : chat_endpoint(sid, <<"tok">>)
    \/ \E r \in Runs, sid \in SessionIds : Invoke(r, <<"a","l","i">>, Num(5000), sid)
    \/ \E r \in Runs : GetCreds(r)
    \/ \E r \in Runs : RecipientsReturn(r, List(<<R2, R1, R4>>))
    \/ \E r \in Runs : CardsReturn(r, List(<<Card1>>))
    \/ \E r \in Runs : LookupReturn(r, Dict([id |-> Str(<<"r1">>), pan |-> Str(Pan1)]))
    \/ \E r \in Runs, x \in ConcPrepayResponses : PrepayReturn(r, x)
    \/ \E r \in Runs : PayReturn(r, Dict([status |-> Str(<<"SUCCESS">>)]))
    \/ \E r \in Runs : Subscribe(r)
    \/ \E r \in Runs : WaitSelectedPoll(r)
    \/ \E r \in Runs : WaitCodePoll(r)
    \/ Tick
    \/ \E id \in AnnouncedIds, body \in ConcChooseBodies : choose_item(id, body)
    \/ \E id \in AnnouncedIds, body \in ConcConfirmBodies : confirm_transaction(id, body)

SpecConc == InitConc /\ [][NextConc]_vars

(***************************************************************************)
(* One invocation whose session is rewritten or expires at any moment.     *)
(* The gateway answers every call well, so the run goes through both       *)
(* selection waits and the wait for the code.                              *)
(***************************************************************************)
OtherCreds == Json(Dict([token |-> Str(<<"tok2">>), user_id |-> Str(<<"43">>)]))

InitSnap == InitWith([runs |-> 1, foreign |-> 0])

NextSnap ==
    \/ \E sid \in SessionIds : chat_endpoint(sid, <<"tok">>)
    \/ \E k \in Keys, raw \in {OtherCreds, EmptyStr} : StoreOverwrite(k, raw)
    \/ \E k \in Keys : Expire(k)
    \/ \E r \in Runs, sid \in SessionIds : Invoke(r, <<"a","l","i">>, Num(5000), sid)
    \/ \E r \in Runs : GetCreds(r)
    \/ \E r \in Runs : RecipientsReturn(r, List(<<R2, R1, R4>>))
    \/ \E r \in Runs : CardsReturn(r, List(<<Card1>>))
    \/ \E r \in Runs : LookupReturn(r, Dict([id |-> Str(<<"r1">>), pan |-> Str(Pan1)]))
    \/ \E r \in Runs, x \in ConcPrepayResponses : PrepayReturn(r, x)
    \/ \E r \in Runs : PayReturn(r, Dict([status |-> Str(<<"SUCCESS">>)]))
    \/ \E r \in Runs : Subscribe(r)
    \/ \E r \in Runs : WaitSelectedPoll(r)
    \/ \E r \in Runs : WaitCodePoll(r)
    \/ Tick
    \/ \E id \in AnnouncedIds, body \in ConcChooseBodies : choose_item(id, body)
    \/ \E id \in AnnouncedIds, body \in ConcConfirmBodies : confirm_transaction(id, body)

SpecSnap == InitSnap /\ [][NextSnap]_vars

(***************************************************************************)
(* One invocation with a publisher that sends messages without value to    *)
(* the reply channels for as long as it likes.  The polling loops go on    *)
(* and time goes by: get_message returns within its timeout of one second. *)
(***************************************************************************)
NoiseData == {EmptyStr, BadJson, Json(Dict(<<>>))}

NoisePublish(channel, data) ==
    /\ Publish(channel, data)
    /\ UNCHANGED <<store, subs, evts, calls, nextId, budget, matcher_call>>

InitNoise == InitWith([runs |-> 1, foreign |-> 0])

NextNoise ==
    \/ \E sid \in SessionIds : chat_endpoint(sid, <<"tok">>)
    \/ \E r \in Runs, sid \in SessionIds : Invoke(r, <<"a","l","i">>, Num(5000), sid)
    \/ \E r \in Runs : GetCreds(r)
    \/ \E r \in Runs : RecipientsReturn(r, List(<<R2, R1, R4>>))
    \/ \E r \in Runs : CardsReturn(r, List(<<Card1>>))
    \/ \E r \in Runs : LookupReturn(r, Dict([id |-> Str(<<"r1">>), pan |-> Str(Pan1)]))
    \/ \E r \in Runs, x \in ConcPrepayResponses : PrepayReturn(r, x)
    \/ \E r \in Runs : PayReturn(r, Dict([status |-> Str(<<"SUCCESS">>)]))
    \/ \E r \in Runs : Subscribe(r)
    \/ \E r \in Runs : WaitSelectedPoll(r)
    \/ \E r \in Runs : WaitCodePoll(r)
    \/ Tick
    \/ \E id \in AnnouncedIds, body \in ConcChooseBodies : choose_item(id, body)
    \/ \E id \in AnnouncedIds, body \in ConcConfirmBodies : confirm_transaction(id, body)
    \/ \E id \in AnnouncedIds, data \in NoiseData :
          \/ NoisePublish(SEL_CHANNEL(id), data)
          \/ NoisePublish(OTP_CHANNEL(id), data)

SpecNoise == InitNoise /\ [][NextNoise]_vars

FairNoise ==
    /\ SpecNoise
    /\ WF_vars(Tick)
    /\ \A r \in Runs : WF_vars(WaitSelectedPoll(r)) /\ WF_vars(WaitCodePoll(r))

(***************************************************************************)
(* The Name Matcher on its own: one call of one of its functions on        *)
(* arguments drawn from bounded sets; no run of make_transaction.          *)
(***************************************************************************)
MaxNameLen == 3
MaxItems == 3

\* the strings of at most n characters of an alphabet
StringsUpTo(alphabet, n) == UNION {[1..k -> alphabet] : k \in 0..n}

\* names for score: short strings with a digraph of _phonetic in reach, and
\* some longer ones: two words, a digraph and its one-letter spelling, a
\* name ending in a suffix
Names == StringsUpTo({"a", "s", "h"}, MaxNameLen)
LongerPairs ==
    {<<<<"a"," ","b">>, <<"a"," ","b">>>>,
     <<<<"k","h">>, <<"x">>>>,
     <<<<"a","l","i","j","o","n">>, <<"a","l","i","j">>>>,
     <<<<"a","l","i">>, <<"a","l","i"," ","x">>>>}

\* roots and the names made of a root and a suffix of _COMMON_SUFFIXES
Roots == StringsUpTo({"a", "i", "s"}, MaxNameLen) \ {<<>>}
SuffixedPairs == {<<root \o suf, root>> : root \in Roots, suf \in SeqRange(_COMMON_SUFFIXES)}

\* queries with nothing left after normalization
EmptyQueries == {<<>>, <<" ">>, <<"!">>, <<" ", "!", " ">>}

ScoreArgs ==
    (Names \X Names) \cup LongerPairs \cup SuffixedPairs \cup (EmptyQueries \X Names)

\* texts for _normalize_uz: elongated Latin text, and Cyrillic text: every
\* letter of _CYR_MAP, pairs of some, and a name
Elongated == StringsUpTo({"a", "l"}, MaxNameLen + 2) \cup {<<"A","a","a","a","l","i">>}
CyrLetters ==
    {_CYR_LOWER[i][1] : i \in 1..Len(_CYR_LOWER)} \cup {_CYR_UPPER[i][1] : i \in 1..Len(_CYR_UPPER)}
CyrTexts ==
    [1..1 -> CyrLetters]
        \cup [1..2 -> {"U+0410", "U+0430", "U+0428", "U+0439", "U+045E", "U+044C"}]
        \cup {<<"U+0410", "U+043B", "U+0438">>}
NormalizeArgs == {<<s>> : s \in Elongated \cup CyrTexts}

\* pairs for _dl
DlArgs == StringsUpTo({"a", "b", "c"}, MaxNameLen) \X StringsUpTo({"a", "b", "c"}, MaxNameLen)

\* holders for filter_objects_by_holder: an exact match of "ali", two names
\* one edit away, a name "ali" begins, a name far from it, a holder that is
\* no string and an item without holder
H1 == Dict([id |-> Str(<<"h1">>), holder |-> Str(<<"A","l","i">>)])
H2 == Dict([id |-> Str(<<"h2">>), holder |-> Str(<<"V","a","l","i">>)])
H3 == Dict([id |-> Str(<<"h3">>), holder |-> Str(<<"A","l","y">>)])
H4 == Dict([id |-> Str(<<"h4">>), holder |-> Str(<<"A","l","i","s","h","e","r">>)])
H5 == Dict([id |-> Str(<<"h5">>), holder |-> Str(<<"Z","e","d">>)])
H6 == Dict([id |-> Str(<<"h6">>), holder |-> Num(7)])
H7 == Dict([id |-> Str(<<"h7">>)])
Holders == {H1, H2, H3, H4, H5, H6, H7}

\* the lists of at most MaxItems different items
ItemLists ==
    {l \in StringsUpTo(Holders, MaxItems) :
        \A i \in 1..Len(l), j \in 1..Len(l) : i # j => l[i] # l[j]}
FilterArgs == {<<"a","l","i">>, <<" ">>} \X {List(l) : l \in ItemLists}

InitMatch ==
    /\ InitRuns([runs |-> 0, foreign |-> 0])
    /\ \/ \E args \in ScoreArgs :
             matcher_call = [fn |-> "score", args |-> args, done |-> FALSE]
       \/ \E args \in NormalizeArgs :
             matcher_call = [fn |-> "_normalize_uz", args |-> args, done |-> FALSE]
       \/ \E args \in DlArgs :
             matcher_call = [fn |-> "_dl", args |-> args, done |-> FALSE]
       \/ \E args \in FilterArgs :
             matcher_call = [fn |-> "filter_objects_by_holder", args |-> args,
                             done |-> FALSE]

\* the call returns ret
Return(ret) ==
    /\ ~matcher_call.done
    /\ matcher_call' = [fn |-> matcher_call.fn, args |-> matcher_call.args,
                        done |-> TRUE, ret |-> ret]
    /\ UNCHANGED <<store, run, subs, inbox, evts, calls, nextId, budget>>

score_returns ==
    /\ matcher_call.fn = "score"
    /\ Return(score(matcher_call.args[1], matcher_call.args[2]))

normalize_returns ==
    /\ matcher_call.fn = "_normalize_uz"
    /\ Return(_normalize_uz(matcher_call.args[1]))

dl_returns ==
    /\ matcher_call.fn = "_dl"
    /\ Return(_dl(matcher_call.args[1], matcher_call.args[2]))

filter_returns ==
    /\ matcher_call.fn = "filter_objects_by_holder"
    /\ Return(filter_objects_by_holder(matcher_call.args[1], matcher_call.args[2]))

NextMatch ==
    \/ score_returns
    \/ normalize_returns
    \/ dl_returns
    \/ filter_returns

SpecMatch == InitMatch /\ [][NextMatch]_vars

(***************************************************************************)
(* Properties.                                                             *)
(***************************************************************************)
\* the reply channel an event of the broadcast channel asks to be answered on
ChannelOf(e) ==
    IF "session_id" \in DOMAIN e THEN SEL_CHANNEL(e.session_id)
    ELSE OTP_CHANNEL(fmt(e.payment_id))

Ops(r) == [i \in 1..Len(calls[r]) |-> calls[r][i].op]
HasReturned(r) == run[r].pc = "returned"

\* C1: in every confirmation step the subscription to the reply channel
\* exists before the request event is published: while a run is in the step
\* of the last event it published, it is subscribed to that event's channel.
C1_SubscribedBeforePublish ==
    \A r \in Runs :
        (run[r].pc \in AtSubscribe \cup InWait /\ evts[r] # <<>>)
            => subs[r] = ChannelOf(evts[r][Len(evts[r])])

\* C2: no reply is lost: a step during which a valid reply was published on
\* its channel, after the request event and before the deadline, does not
\* end in TIMEOUT.
C2_NoReplyLost ==
    \A r \in Runs :
        (HasReturned(r) /\ run[r].result.status = "TIMEOUT") => ~run[r].replied

\* C3: a waiter that has returned (with a value, on timeout or by an
\* exception) holds no subscription: a run outside a waiter's loop is
\* subscribed to nothing and no message is kept for it.
C3_NoSubscriptionAfterWait ==
    \A r \in Runs :
        run[r].pc \notin InWait => (subs[r] = NoChannel /\ inbox[r] = <<>>)

\* a run whose first wait returned a value and whose second wait timed out
C3_Witness ==
    \E r \in Runs :
        /\ HasReturned(r)
        /\ run[r].result.status = "TIMEOUT"
        /\ run[r].result.stage = "select_card"
        /\ Len(run[r].heard) = 1
        /\ subs[r] = NoChannel

\* C4: a message that yields no selected value is noise: no wait fails
\* because of a message.
C4_NoiseNeverFailsWait ==
    \A r \in Runs :
        run[r].pc = "raised" => run[r].at \notin {"_wait_selected", "_wait_code"}

\* C5: no exception escapes make_transaction.
C5_NoExceptionEscapes == \A r \in Runs : run[r].pc # "raised"

\* the store holds, live, a JSON object with a non-empty token and user id
Usable(entry) ==
    /\ entry.state = "live"
    /\ entry.raw.kind = "json"
    /\ entry.raw.v.t = "dict"
    /\ {"token", "user_id"} \subseteq DOMAIN entry.raw.v.d
    /\ entry.raw.v.d.token.t = "str" /\ entry.raw.v.d.token.s # <<>>
    /\ entry.raw.v.d.user_id.t = "str" /\ entry.raw.v.d.user_id.s # <<>>

CredsError == Error("creds", Str(<<"Missing credentials for session">>))

\* C6: a run that found no usable session (never created, expired,
\* unparsable, no token or no user id) has returned ERROR at stage "creds",
\* has called the gateway never and published nothing.
C6_AbsentSessionIsCredsError ==
    \A r \in Runs :
        (run[r].saw.state # "unread" /\ ~Usable(run[r].saw))
            => /\ HasReturned(r)
               /\ run[r].result = CredsError
               /\ calls[r] = <<>>
               /\ evts[r] = <<>>

\* a run that read an expired session
C6_Witness ==
    \E r \in Runs :
        /\ run[r].saw.state = "expired"
        /\ HasReturned(r)
        /\ run[r].result.stage = "creds"

GatewayOrder ==
    <<"get_recipient_sello", "get_card_sello", "get_recipient_sello_by_id",
      "p2p_prepay", "p2p_pay">>

\* the place of a position in the order of the steps of make_transaction
Rank(pc) ==
    CASE pc = "idle" -> 0
      [] pc = "get_creds" -> 1
      [] pc = "in_get_recipient_sello" -> 2
      [] pc = "subscribe_recipient" -> 3
      [] pc = "wait_recipient" -> 4
      [] pc = "in_get_card_sello" -> 5
      [] pc = "subscribe_card" -> 6
      [] pc = "wait_card" -> 7
      [] pc = "in_get_recipient_sello_by_id" -> 8
      [] pc = "in_p2p_prepay" -> 9
      [] pc = "subscribe_code" -> 10
      [] pc = "wait_code" -> 11
      [] pc = "in_p2p_pay" -> 12
      [] pc \in Ended -> 13

\* C7: a run advances linearly with no retry: the gateway operations it has
\* begun are a prefix of the fixed order, and every step that moves a run
\* moves it forward, one call begun at most.
C7_LinearNoRetry ==
    /\ [](\A r \in Runs : Ops(r) = SubSeq(GatewayOrder, 1, Len(calls[r])))
    /\ [][\A r \in Runs :
             /\ run'[r].pc # run[r].pc => Rank(run'[r].pc) > Rank(run[r].pc)
             /\ Len(calls'[r]) <= Len(calls[r]) + 1
             /\ SubSeq(Ops(r)', 1, Len(calls[r])) = Ops(r)]_vars

\* a run that made all five calls
C7_Witness == \E r \in Runs : Len(calls[r]) = 5 /\ HasReturned(r)

\* C8: pay is called only after a prepay of the same run returned a payment
\* id, with that id and with a non-empty trimmed code that came on the OTP
\* channel of that id; a run that ended in a timeout, or in an error of
\* another stage than pay, never called pay.
C8_PayOnlyWithPrepaidIdAndCode ==
    \A r \in Runs :
        /\ \A i \in 1..Len(calls[r]) :
              calls[r][i].op = "p2p_pay" =>
                  /\ i > 1
                  /\ calls[r][i - 1].op = "p2p_prepay"
                  /\ calls[r][i - 1].ret.t = "dict"
                  /\ "error" \notin DOMAIN calls[r][i - 1].ret.d
                  /\ "id" \in DOMAIN calls[r][i - 1].ret.d
                  /\ Truthy(calls[r][i - 1].ret.d.id)
                  /\ calls[r][i].args.payment_id = calls[r][i - 1].ret.d.id
                  /\ calls[r][i].args.code.t = "str"
                  /\ calls[r][i].args.code.s # <<>>
                  /\ Head(calls[r][i].args.code.s) \notin Whitespace
                  /\ calls[r][i].args.code.s[Len(calls[r][i].args.code.s)] \notin Whitespace
                  /\ run[r].heard # <<>>
                  /\ run[r].heard[Len(run[r].heard)]
                        = OTP_CHANNEL(fmt(calls[r][i - 1].ret.d.id))
        /\ (/\ HasReturned(r)
            /\ \/ run[r].result.status \in {"TIMEOUT", "NO_RECIPIENTS"}
               \/ run[r].result.status = "ERROR" /\ run[r].result.stage # "pay")
              => "p2p_pay" \notin SeqRange(Ops(r))

\* pay has been called
C8_Witness == \E r \in Runs : "p2p_pay" \in SeqRange(Ops(r))

\* every step of the run succeeded: it made all five calls and pay returned
\* no error
AllSucceeded(r) ==
    /\ HasReturned(r)
    /\ Len(calls[r]) = 5
    /\ ~IsError(calls[r][5].ret)

\* C9 as stated: a run whose every step succeeded ends with status PAID, the
\* gateway's pay result and the chosen recipient.
C9_EndsPaid ==
    \A r \in Runs :
        AllSucceeded(r) =>
            /\ run[r].result.status = "PAID"
            /\ run[r].result.result = calls[r][5].ret
            /\ run[r].result.receiver = calls[r][3].args.recipient_id

\* C9 as amended: a run whose every step succeeded ends with status
\* CONFIRMED, the payment id of prepay, the gateway's pay result and the
\* recipient id chosen in the first step.
C9_EndsConfirmed ==
    \A r \in Runs :
        AllSucceeded(r) =>
            /\ run[r].result.status = "CONFIRMED"
            /\ run[r].result.payment_id = calls[r][4].ret.d.id
            /\ run[r].result.result = calls[r][5].ret
            /\ run[r].result.receiver = calls[r][3].args.recipient_id
            /\ Len(run[r].heard) = 3
            /\ run[r].heard[1] = SEL_CHANNEL(evts[r][1].session_id)

C9_Witness == \E r \in Runs : AllSucceeded(r)

\* C10: when the recipient list fails upstream, the run returns ERROR at
\* stage "recipient_list" with the upstream message, makes no further call
\* and publishes nothing.
C10_RecipientListErrorPropagates ==
    \A r \in Runs :
        (calls[r] # <<>> /\ IsError(calls[r][1].ret)) =>
            /\ HasReturned(r)
            /\ run[r].result = Error("recipient_list", calls[r][1].ret.d.error)
            /\ Len(calls[r]) = 1
            /\ evts[r] = <<>>

\* the gateway's response holds a payment id
HasId(ret) == ret.t = "dict" /\ "id" \in DOMAIN ret.d /\ Truthy(ret.d.id)

\* no item of the list is kept for the query: each is an object whose holder
\* is no string or scores below the threshold
KeepsNone(query, items) ==
    \A i \in 1..Len(items) :
        /\ items[i].t = "dict"
        /\ \/ Get(items[i], "holder").t # "str"
           \/ score(query, Get(items[i], "holder").s) < min_score

\* C11: when the Name Matcher keeps no recipient for the requested name, the
\* run has returned NO_RECIPIENTS, has made no call after the recipient list
\* and has published nothing.
C11_NoMatchIsNoRecipients ==
    \A r \in Runs :
        (/\ calls[r] # <<>>
         /\ calls[r][1].ret.t = "list"
         /\ KeepsNone(run[r].recipient_name, calls[r][1].ret.items))
            => /\ HasReturned(r)
               /\ run[r].result.status = "NO_RECIPIENTS"
               /\ Ops(r) = <<"get_recipient_sello">>
               /\ evts[r] = <<>>

\* the gateway listed recipients and none matched the name
C11_Witness ==
    \E r \in Runs :
        /\ HasReturned(r)
        /\ run[r].result.status = "NO_RECIPIENTS"
        /\ calls[r][1].ret.t = "list"
        /\ Len(calls[r][1].ret.items) = 3

\* C12: a run that left the recipient step without a valid reply has returned
\* TIMEOUT at "select_recipient" having called only the recipient list; a run
\* that left the card step without a valid reply has returned TIMEOUT at
\* "select_card" having called neither prepay nor pay.
C12_ExpiredSelectionIsTimeout ==
    \A r \in Runs :
        run[r].pc \in Ended =>
            /\ (Len(evts[r]) = 1 /\ Len(run[r].heard) = 0)
                  => /\ HasReturned(r)
                     /\ run[r].result.status = "TIMEOUT"
                     /\ run[r].result.stage = "select_recipient"
                     /\ Ops(r) = <<"get_recipient_sello">>
            /\ (Len(evts[r]) = 2 /\ Len(run[r].heard) = 1)
                  => /\ HasReturned(r)
                     /\ run[r].result.status = "TIMEOUT"
                     /\ run[r].result.stage = "select_card"
                     /\ Ops(r) = <<"get_recipient_sello", "get_card_sello">>

\* C13: a run that left the OTP step without a valid code has returned
\* TIMEOUT at "await_code" with the payment id prepay returned, and has not
\* called pay.
C13_ExpiredCodeIsTimeout ==
    \A r \in Runs :
        (run[r].pc \in Ended /\ Len(evts[r]) = 3 /\ Len(run[r].heard) = 2)
            => /\ HasReturned(r)
               /\ run[r].result.status = "TIMEOUT"
               /\ run[r].result.stage = "await_code"
               /\ run[r].result.payment_id = calls[r][4].ret.d.id
               /\ "p2p_pay" \notin SeqRange(Ops(r))

\* C14: once prepay has answered with its error value, or with a response
\* that holds no payment id, the run has returned ERROR at "prepay" (with
\* the upstream error, or with the message of the missing id), no
\* CODE_REQUIRED was published, no OTP wait began and pay was not called.
C14_PrepayFailureIsPrepayError ==
    \A r \in Runs :
        (/\ Len(calls[r]) >= 4
         /\ calls[r][4].ret.t # "pending"
         /\ ~HasId(calls[r][4].ret) \/ IsError(calls[r][4].ret))
            => /\ HasReturned(r)
               /\ run[r].result =
                     IF IsError(calls[r][4].ret)
                     THEN Error("prepay", calls[r][4].ret.d.error)
                     ELSE Error("prepay", Str(<<"No payment_id from prepay">>))
               /\ Len(evts[r]) = 2
               /\ Len(run[r].heard) = 2
               /\ Len(calls[r]) = 4

\* C15: when pay answers with its error value, the run has returned ERROR at
\* "pay" with the upstream error and the payment id prepay returned.
C15_PayErrorCarriesPaymentId ==
    \A r \in Runs :
        (Len(calls[r]) = 5 /\ IsError(calls[r][5].ret))
            => /\ HasReturned(r)
               /\ run[r].result.status = "ERROR"
               /\ run[r].result.stage = "pay"
               /\ run[r].result.error = calls[r][5].ret.d.error
               /\ "payment_id" \in DOMAIN run[r].result
               /\ run[r].result.payment_id = calls[r][4].ret.d.id

\* pay has failed upstream
C15_Witness == \E r \in Runs : Len(calls[r]) = 5 /\ IsError(calls[r][5].ret)

\* C18: a run that has called prepay has published CARD_CHOICES, has heard a
\* value on that step's channel and passes that value as the card id; the
\* value a card wait hands over is the one of the message it read on its
\* channel.
C18_CardAlwaysAsked ==
    /\ [](\A r \in Runs :
            "p2p_prepay" \in SeqRange(Ops(r)) =>
                /\ Len(evts[r]) >= 2
                /\ evts[r][2].type = "CARD_CHOICES"
                /\ Len(run[r].heard) >= 2
                /\ run[r].heard[2] = SEL_CHANNEL(evts[r][2].session_id)
                /\ Truthy(run[r].sender_card_id)
                /\ calls[r][4].args.sender_card_id = run[r].sender_card_id)
    /\ [][\A r \in Runs :
             run'[r].sender_card_id # run[r].sender_card_id =>
                 /\ run[r].pc = "wait_card"
                 /\ inbox[r] # <<>>
                 /\ Head(inbox[r]).channel = SEL_CHANNEL(run[r].csid)
                 /\ run'[r].sender_card_id = wait_selected_msg(Head(inbox[r]).data).v]_vars

\* a run that called prepay when the gateway had listed exactly one card
C18_Witness ==
    \E r \in Runs :
        /\ "p2p_prepay" \in SeqRange(Ops(r))
        /\ calls[r][2].ret = List(<<Card1>>)

EventOrder == <<"RECIPIENT_CHOICES", "CARD_CHOICES", "CODE_REQUIRED">>

\* C19: the events of a run are a prefix of RECIPIENT_CHOICES, CARD_CHOICES,
\* CODE_REQUIRED; CODE_REQUIRED is there only when prepay has returned a
\* payment id, which it carries with the window of 180 s, and it is there
\* when the run subscribes and polls for the code; events are only added,
\* one at a time.
C19_EventsInOrder ==
    /\ [](\A r \in Runs :
            /\ Len(evts[r]) <= 3
            /\ \A i \in 1..Len(evts[r]) : evts[r][i].type = EventOrder[i]
            /\ Len(evts[r]) = 3 =>
                  /\ Len(calls[r]) >= 4
                  /\ HasId(calls[r][4].ret)
                  /\ evts[r][3].payment_id = calls[r][4].ret.d.id
                  /\ evts[r][3].expires_in = 180
            /\ run[r].pc \in {"subscribe_code", "wait_code"} => Len(evts[r]) = 3)
    /\ [][\A r \in Runs :
             /\ Len(evts'[r]) <= Len(evts[r]) + 1
             /\ SubSeq(evts'[r], 1, Len(evts[r])) = evts[r]]_vars

\* a run polling for the code
C19_Witness == \E r \in Runs : run[r].pc = "wait_code" /\ Len(evts[r]) = 3

\* C20: a run that has called prepay had its by-id lookup answer without
\* error, and the account number it sent is the account number, present, of
\* that answer.
C20_PrepaySendsLookedUpPan ==
    \A r \in Runs :
        "p2p_prepay" \in SeqRange(Ops(r)) =>
            /\ calls[r][3].op = "get_recipient_sello_by_id"
            /\ calls[r][3].args.recipient_id = run[r].chosen
            /\ calls[r][3].ret.t = "dict"
            /\ ~IsError(calls[r][3].ret)
            /\ "pan" \in DOMAIN calls[r][3].ret.d
            /\ calls[r][3].ret.d.pan.t = "str"
            /\ calls[r][3].ret.d.pan.s # <<>>
            /\ calls[r][4].args.card_pan = calls[r][3].ret.d.pan

\* the waits a run has reached, each with the correlation id it uses
UsedWaits ==
    {w \in Runs \X {"recipient", "card", "otp"} :
        CASE w[2] = "recipient" -> run[w[1]].rsid # <<>>
          [] w[2] = "card" -> run[w[1]].csid # <<>>
          [] w[2] = "otp" -> Truthy(run[w[1]].payment_id)}
WaitId(w) ==
    CASE w[2] = "recipient" -> run[w[1]].rsid
      [] w[2] = "card" -> run[w[1]].csid
      [] w[2] = "otp" -> fmt(run[w[1]].payment_id)
\* the channel on which the replies of a wait are expected
ReplyChannel(w) ==
    IF w[2] = "otp" THEN <<"otp:">> \o WaitId(w) ELSE <<"select:">> \o WaitId(w)
\* the wait a polling run is in
WaitOf(r) ==
    CASE run[r].pc = "wait_recipient" -> <<r, "recipient">>
      [] run[r].pc = "wait_card" -> <<r, "card">>
      [] run[r].pc = "wait_code" -> <<r, "otp">>

\* C16 as stated: the ids of all waits, of all runs and of the three steps,
\* are pairwise distinct.
C16_AllWaitIdsDistinct ==
    \A w1 \in UsedWaits, w2 \in UsedWaits : w1 # w2 => WaitId(w1) # WaitId(w2)

\* C16 as amended: the ids of the recipient waits and of the card waits, of
\* all runs, are pairwise distinct; the OTP wait uses the payment id prepay
\* returned in that run, and its channel is the channel of no selection wait.
C16_SelectionIdsDistinct ==
    /\ \A w1 \in UsedWaits, w2 \in UsedWaits :
          (w1 # w2 /\ w1[2] # "otp" /\ w2[2] # "otp") => WaitId(w1) # WaitId(w2)
    /\ \A w \in UsedWaits :
          w[2] = "otp" =>
              /\ Len(calls[w[1]]) >= 4
              /\ HasId(calls[w[1]][4].ret)
              /\ WaitId(w) = fmt(calls[w[1]][4].ret.d.id)
              /\ \A v \in UsedWaits : v[2] # "otp" => ReplyChannel(v) # ReplyChannel(w)
    /\ \A r \in Runs :
          run[r].pc \in InWait => subs[r] = ReplyChannel(WaitOf(r))

\* both runs have reached their card waits and one its OTP wait
C16_Witness ==
    /\ \A r \in Runs : <<r, "card">> \in UsedWaits
    /\ \E r \in Runs : run[r].pc = "wait_code"

\* C17: a run's pubsub holds only messages published on the channel of its
\* own wait; two runs waiting under different ids, or one for a selection
\* and one for a code (even under the same id), are subscribed to different
\* channels; the value a wait returns is read from a message of its channel.
C17_NoCrossDelivery ==
    /\ [](\A r \in Runs :
            /\ \A i \in 1..Len(inbox[r]) : inbox[r][i].channel = subs[r]
            /\ run[r].pc \in InWait =>
                  /\ subs[r] = ReplyChannel(WaitOf(r))
                  /\ \A q \in Runs \ {r} :
                        (/\ run[q].pc \in InWait
                         /\ \/ WaitOf(q)[2] = "otp" /\ WaitOf(r)[2] # "otp"
                            \/ WaitId(WaitOf(q)) # WaitId(WaitOf(r)))
                            => subs[q] # subs[r])
    /\ [][\A r \in Runs :
             Len(run'[r].heard) > Len(run[r].heard) =>
                 /\ run[r].pc \in InWait
                 /\ inbox[r] # <<>>
                 /\ Head(inbox[r]).channel = ReplyChannel(WaitOf(r))
                 /\ run'[r].heard = Append(run[r].heard, ReplyChannel(WaitOf(r)))]_vars

\* one run waits for a selection and another for a code under the same id; a
\* reply was published for the first and the second has none
C17_Witness ==
    \E r \in Runs, q \in Runs :
        /\ run[r].pc \in {"wait_recipient", "wait_card"}
        /\ run[q].pc = "wait_code"
        /\ WaitId(WaitOf(r)) = WaitId(WaitOf(q))
        /\ inbox[r] # <<>>
        /\ inbox[q] = <<>>

\* the account numbers a run has been given: those of the recipient list and
\* that of the by-id lookup
PansOf(r) ==
    {x.d.pan.s : x \in {y \in {calls[r][i].ret : i \in 1..Len(calls[r])}
                               \cup UNION {SeqRange(calls[r][i].ret.items) :
                                              i \in {j \in 1..Len(calls[r]) :
                                                        calls[r][j].ret.t = "list"}} :
                           /\ y.t = "dict"
                           /\ "pan" \in DOMAIN y.d
                           /\ y.d.pan.t = "str"}}

\* the text v shows none of the account numbers of run r
ShowsNoPan(r, v) ==
    v.t = "str" => \A pan \in PansOf(r) : v.s # pan /\ ~contains(v.s, pan)

\* C21: no event a run publishes shows an account number it was given (the
\* account numbers are longer than four characters, as card numbers are):
\* each entry of RECIPIENT_CHOICES has the fields id, name, masked and
\* pan_last4 only, pan_last4 being the last four characters of the account
\* number of the listed recipient with that id, and no field of any entry of
\* any event, nor the payment id of CODE_REQUIRED, is an account number.
C21_NoFullPanInEvents ==
    \A r \in Runs : \A i \in 1..Len(evts[r]) :
        LET e == evts[r][i]
        IN  /\ e.type \in {"RECIPIENT_CHOICES", "CARD_CHOICES"} =>
                  \A k \in 1..Len(e.list) : \A f \in DOMAIN e.list[k] :
                      ShowsNoPan(r, e.list[k][f])
            /\ e.type = "CODE_REQUIRED" => ShowsNoPan(r, e.payment_id)
            /\ e.type = "RECIPIENT_CHOICES" =>
                  \A k \in 1..Len(e.list) :
                      /\ DOMAIN e.list[k] = {"id", "name", "masked", "pan_last4"}
                      /\ \A x \in SeqRange(calls[r][1].ret.items) :
                            (/\ x.t = "dict"
                             /\ Get(x, "id") = e.list[k].id
                             /\ Get(x, "pan").t = "str") =>
                                /\ Len(Get(x, "pan").s) > 4
                                /\ e.list[k].pan_last4.t = "str"
                                /\ e.list[k].pan_last4.s =
                                      SubSeq(Get(x, "pan").s, Len(Get(x, "pan").s) - 3,
                                             Len(Get(x, "pan").s))

\* a run has published recipient choices that carry the last four characters
\* of an account number
C21_Witness ==
    \E r \in Runs :
        /\ Len(evts[r]) >= 1
        /\ \E k \in 1..Len(evts[r][1].list) :
              /\ evts[r][1].list[k].pan_last4.t = "str"
              /\ Len(evts[r][1].list[k].pan_last4.s) = 4

\* C22: the Session Store is read once per run: what a run saw there never
\* changes after the read, every gateway call of the run carries the token
\* that was read then, get_card_sello the user id read then, whatever the
\* store holds by the time of the call, and a step that rewrites or expires
\* a session changes nothing of any run, its calls or its events.
C22_CredsAreSnapshot ==
    /\ [](\A r \in Runs : \A i \in 1..Len(calls[r]) :
            /\ run[r].saw.state = "live"
            /\ calls[r][i].args.auth_token = _get_creds(run[r].saw.raw)[1]
            /\ calls[r][i].op = "get_card_sello" =>
                  calls[r][i].args.user_id = _get_creds(run[r].saw.raw)[2])
    /\ [][/\ \A r \in Runs :
                run[r].saw.state # "unread" => run'[r].saw = run[r].saw
          /\ store' # store => run' = run /\ calls' = calls /\ evts' = evts]_vars

\* the run made its last gateway call, and was confirmed, with the token it
\* read at the start although the session had by then been rewritten or had
\* expired: the store changed while the run was waiting for the code
C22_Witness ==
    \E r \in Runs :
        /\ HasReturned(r)
        /\ run[r].result.status = "CONFIRMED"
        /\ Len(calls[r]) = 5
        /\ calls[r][5].args.auth_token = Str(<<"tok">>)
        /\ store[SESSION_KEY(run[r].session_id)] # run[r].saw
        /\ store[SESSION_KEY(run[r].session_id)].state \in {"live", "expired"}

\* C23: while one run is inside a gateway call, every other run that is
\* polling for a reply can take its next turn: read its subscription and
\* compare the time waited with its deadline.
C23_OthersProgressDuringCall ==
    \A r \in Runs : \A q \in Runs \ {r} :
        (run[q].pc \in InCall /\ run[r].pc \in InWait) =>
            ENABLED (WaitSelectedPoll(r) \/ WaitCodePoll(r))

\* the call of fn that has returned
Done(fn) == matcher_call.fn = fn /\ matcher_call.done

\* the score the claim gives a pair at distance d, or -1 for none
TierOf(d) == CASE d = 0 -> 100 [] d = 1 -> 85 [] d = 2 -> 70 [] OTHER -> -1

\* s is what normalization makes of itself
Normalized(s) == _normalize_uz(s) = s

Digraphs == {<<"s","h">>, <<"c","h">>, <<"n","g">>, <<"k","h">>, <<"g","'">>, <<"o","'">>}

\* one word, not empty, with no digraph of _phonetic
PlainWord(s) ==
    /\ s # <<>>
    /\ \A i \in 1..Len(s) : s[i] \notin {" ", "-"}
    /\ \A g \in Digraphs : ~contains(s, g)

Kept(query, item) ==
    /\ Get(item, "holder").t = "str"
    /\ score(query, Get(item, "holder").s) >= min_score

\* where the item stands in the list
PlaceIn(list, item) == CHOOSE i \in 1..Len(list) : list[i] = item

\* C25: filter_objects_by_holder has returned, without raising, exactly the
\* items of its input whose holder is a string scoring at least the floor,
\* each once, by falling score, items of equal score in their input order.
C25_FilterKeepsAndSortsStably ==
    Done("filter_objects_by_holder") =>
        /\ matcher_call.ret.exc = ""
        /\ \A k \in 1..Len(matcher_call.ret.list) :
              /\ matcher_call.ret.list[k] \in SeqRange(matcher_call.args[2].items)
              /\ Kept(matcher_call.args[1], matcher_call.ret.list[k])
        /\ \A i \in 1..Len(matcher_call.args[2].items) :
              Kept(matcher_call.args[1], matcher_call.args[2].items[i]) =>
                  matcher_call.args[2].items[i] \in SeqRange(matcher_call.ret.list)
        /\ \A k \in 1..Len(matcher_call.ret.list), m \in 1..Len(matcher_call.ret.list) :
              k < m =>
                  /\ matcher_call.ret.list[k] # matcher_call.ret.list[m]
                  /\ score(matcher_call.args[1], Get(matcher_call.ret.list[k], "holder").s)
                        >= score(matcher_call.args[1],
                                 Get(matcher_call.ret.list[m], "holder").s)
                  /\ score(matcher_call.args[1], Get(matcher_call.ret.list[k], "holder").s)
                        = score(matcher_call.args[1],
                                Get(matcher_call.ret.list[m], "holder").s) =>
                        PlaceIn(matcher_call.args[2].items, matcher_call.ret.list[k])
                            < PlaceIn(matcher_call.args[2].items, matcher_call.ret.list[m])

\* the two holders one edit from "ali" came before the exact match and are
\* returned after it, in the order they came in
C25_Witness ==
    /\ Done("filter_objects_by_holder")
    /\ matcher_call.args = <<<<"a","l","i">>, List(<<H3, H2, H1>>)>>
    /\ matcher_call.ret.list = <<H1, H3, H2>>

\* the call scored a name made of a root and suf against the root
SuffixedBy(suf) ==
    /\ Done("score")
    /\ matcher_call.args[2] # <<>>
    /\ matcher_call.args[1] = matcher_call.args[2] \o suf

RECURSIVE Squeezed(_)
Squeezed(s) ==
    IF s = <<>> THEN <<>>
    ELSE LET n == CHOOSE k \in 1..Len(s) :
                      /\ \A i \in 1..k : s[i] = s[1]
                      /\ (k < Len(s) => s[k + 1] # s[1])
         IN  (IF s[1] \in Vowels \/ n = 1 THEN <<s[1]>> ELSE <<s[1], s[1]>>)
                 \o Squeezed(SubSeq(s, n + 1, Len(s)))

\* the call normalized a text of lower-case Latin letters
OnLatin ==
    /\ Done("_normalize_uz")
    /\ \A i \in 1..Len(matcher_call.args[1]) :
          matcher_call.args[1][i] \in SeqRange(AsciiLower)

Aaaali == <<"A","a","a","a","l","i">>

\* C27 as stated: normalization has made of every run of three or more
\* identical characters two and of every run of a vowel one, and of "Aaaali"
\* it has made "aali" ("Aali", case aside).
C27_AaaaliIsAali ==
    /\ OnLatin => matcher_call.ret = Squeezed(matcher_call.args[1])
    /\ (Done("_normalize_uz") /\ matcher_call.args[1] = Aaaali) =>
          matcher_call.ret = <<"a","a","l","i">>

\* C27, amended: normalization has made of every run of three or more
\* identical characters two and of every run of a vowel one, and of "Aaaali"
\* it has made "ali": the four a are cut to two and the two, a vowel, to one.
C27_AaaaliIsAli ==
    /\ OnLatin => matcher_call.ret = Squeezed(matcher_call.args[1])
    /\ (Done("_normalize_uz") /\ matcher_call.args[1] = Aaaali) =>
          matcher_call.ret = <<"a","l","i">>

\* "Aaaali" has been normalized to "ali", and "allll" to "all"
C27_Witness ==
    /\ Done("_normalize_uz")
    /\ matcher_call.args[1] = Aaaali
    /\ matcher_call.ret = <<"a","l","i">>
    /\ _normalize_uz(<<"a","l","l","l","l">>) = <<"a","l","l">>

\* Latin text with a capital first letter
Capitalized(lat) ==
    IF lat = <<>> THEN lat
    ELSE <<AsciiUpper[CHOOSE i \in 1..26 : AsciiLower[i] = lat[1]]>> \o Tail(lat)

\* the transliteration of Cyrillic text as one writes it in Latin script:
\* letter by letter as the table says, a capital for a capital
LatinOf(s) ==
    concat([i \in 1..Len(s) |->
               IF \E k \in 1..Len(_CYR_UPPER) : _CYR_UPPER[k][1] = s[i]
               THEN Capitalized(Lookup(_CYR_LOWER, Lookup(_CYR_UPPER, s[i], s[i]), <<>>))
               ELSE Lookup(_CYR_LOWER, s[i], <<s[i]>>)])

\* C28: a text in the Cyrillic letters of the table, capital or small, has
\* been normalized to what its transliteration normalizes to, and that is
\* Latin text.
C28_CyrillicAsLatin ==
    (Done("_normalize_uz") /\ matcher_call.args[1] \in CyrTexts) =>
        /\ matcher_call.ret = _normalize_uz(LatinOf(matcher_call.args[1]))
        /\ \A i \in 1..Len(matcher_call.ret) :
              matcher_call.ret[i] \in SeqRange(AsciiLower) \cup {"'"}

\* capital SHA followed by short i, transliterated "Shy", has been normalized
\* to "shy"
C28_Witness ==
    /\ Done("_normalize_uz")
    /\ matcher_call.args[1] = <<"U+0428", "U+0439">>
    /\ LatinOf(matcher_call.args[1]) = <<"S", "h", "y">>
    /\ matcher_call.ret = <<"s", "h", "y">>

\* s without its i-th character
Without(s, i) == SubSeq(s, 1, i - 1) \o SubSeq(s, i + 1, Len(s))

\* b is a by one edit: a character put in, taken out or replaced, or two
\* neighbours swapped
OneEdit(a, b) ==
    \/ /\ Len(b) = Len(a) + 1
       /\ \E i \in 1..Len(b) : Without(b, i) = a
    \/ /\ Len(a) = Len(b) + 1
       /\ \E i \in 1..Len(a) : Without(a, i) = b
    \/ /\ Len(a) = Len(b)
       /\ \E i \in 1..Len(a) : a[i] # b[i] /\ Without(a, i) = Without(b, i)
    \/ /\ Len(a) = Len(b)
       /\ \E i \in 1..(Len(a) - 1) :
             /\ a[i] # a[i + 1]
             /\ b = [a EXCEPT ![i] = a[i + 1], ![i + 1] = a[i]]

\* the Damerau-Levenshtein distance of a and b, the least number of edits
\* that make b of a, where it is at most two; 3 stands for any greater one.
\* The text between two edits is one edit from both, so no longer than either
\* by more than one character, and written with their characters.
TrueDistance(a, b) ==
    IF a = b THEN 0
    ELSE IF OneEdit(a, b) THEN 1
    ELSE IF \E m \in StringsUpTo({"a", "b", "c"}, MaxNameLen + 1) :
                OneEdit(a, m) /\ OneEdit(m, b)
    THEN 2
    ELSE 3

\* C29: _dl(a, b) has returned the Damerau-Levenshtein distance of a and b
\* wherever that is at most two, and more than two wherever it is more, so
\* that the tiers 0.85 and 0.70 of _tier_similarity go to the pairs at
\* distance one and two and to no other.
C29_DlIsTrueDistance ==
    Done("_dl") =>
        /\ Min2(matcher_call.ret, 3) = TrueDistance(matcher_call.args[1], matcher_call.args[2])
        /\ (matcher_call.args[1] # <<>> /\ matcher_call.args[2] # <<>>) =>
              /\ _tier_similarity(matcher_call.args[1], matcher_call.args[2]) = 85
                    <=> TrueDistance(matcher_call.args[1], matcher_call.args[2]) = 1
              /\ _tier_similarity(matcher_call.args[1], matcher_call.args[2]) = 70
                    <=> TrueDistance(matcher_call.args[1], matcher_call.args[2]) = 2

\* C30: a query of which normalization leaves nothing has scored 0 against
\* the candidate, whatever it is; filter_objects_by_holder has not raised on
\* items whose holder is missing or no string and returns none of them; and
\* with such a query it has returned the empty list.
C30_EmptyQueryMatchesNothing ==
    /\ (Done("score") /\ _normalize_uz(matcher_call.args[1]) = <<>>) =>
          matcher_call.ret = 0
    /\ Done("filter_objects_by_holder") =>
          /\ matcher_call.ret.exc = ""
          /\ \A k \in 1..Len(matcher_call.ret.list) :
                Get(matcher_call.ret.list[k], "holder").t = "str"
          /\ _normalize_uz(matcher_call.args[1]) = <<>> => matcher_call.ret.list = <<>>

\* the filter was given a query of one space and a list with an item without
\* holder, one whose holder is a number and one whose holder is a name, and
\* has returned the empty list
C30_Witness ==
    /\ Done("filter_objects_by_holder")
    /\ matcher_call.args = <<<<" ">>, List(<<H7, H6, H1>>)>>
    /\ matcher_call.ret = [exc |-> "", list |-> <<>>]

\* the text is there, not empty, and has no white space at its ends
Trimmed(v) == v.t = "str" /\ v.s # <<>> /\ strip(v.s) = v.s

\* the message is one its channel's waiter returns a value for: on a
\* selection channel a JSON object with a trimmed recipient_id or card_id and
\* no other kind of value in these fields, on a code channel one with a
\* trimmed code
Accepted(m) ==
    /\ m.data.kind = "json"
    /\ m.data.v.t = "dict"
    /\ IF m.channel[1] = "select:"
       THEN /\ wait_selected_msg(m.data).out = "value"
            /\ DOMAIN m.data.v.d \subseteq {"recipient_id", "card_id"}
            /\ \A f \in DOMAIN m.data.v.d : Trimmed(m.data.v.d[f])
            /\ DOMAIN m.data.v.d # {}
       ELSE /\ m.channel[1] = "otp:"
            /\ wait_code_msg(m.data).out = "value"
            /\ DOMAIN m.data.v.d = {"code"}
            /\ Trimmed(m.data.v.d.code)

\* C31: every message an endpoint puts into a subscription is one the
\* waiter of its channel accepts; a request answered with 400 publishes
\* nothing, so a subscription never holds more messages that are not
\* accepted than the other publishers have sent.
C31_EndpointRepliesAreValid ==
    /\ [](\A r \in Runs :
             Cardinality({i \in 1..Len(inbox[r]) : ~Accepted(inbox[r][i])})
                 <= MaxForeign - budget.foreign)
    /\ [][\A r \in Runs :
             (Len(inbox'[r]) > Len(inbox[r]) /\ budget' = budget) =>
                 Accepted(inbox'[r][Len(inbox'[r])])]_vars

\* the code " 7 " sent to confirm_transaction waits, trimmed, in the
\* subscription of a run, and no other publisher has sent anything
C31_Witness ==
    \E r \in Runs :
        /\ budget.foreign = MaxForeign
        /\ inbox[r] # <<>>
        /\ Head(inbox[r]).channel[1] = "otp:"
        /\ Head(inbox[r]).data = Json(Dict([code |-> Str(<<"7">>)]))

\* what the claim says the selection waiter returns for a reply: its
\* recipient_id, trimmed, when that field is there and not empty, and
\* otherwise its card_id, trimmed
Picked(m) ==
    LET p == m.data.v.d
    IN  IF "recipient_id" \in DOMAIN p /\ p.recipient_id.t = "str" /\ p.recipient_id.s # <<>>
        THEN Str(strip(p.recipient_id.s))
        ELSE Str(strip(p.card_id.s))

\* C32: a selection wait that ends with a value, be it the recipient step's
\* or the card step's, ends with the recipient_id of the message it read,
\* trimmed, when the message has one, and otherwise with its card_id; the
\* by-id lookup and prepay are called with the value of the recipient step
\* as recipient id, prepay with the value of the card step as card, and the
\* confirmed result names the value of the recipient step as receiver.
C32_SelectionKindsNotTold ==
    /\ [](\A r \in Runs :
            /\ \A i \in 1..Len(calls[r]) :
                  /\ calls[r][i].op \in {"get_recipient_sello_by_id", "p2p_prepay"} =>
                        calls[r][i].args.recipient_id = run[r].chosen
                  /\ calls[r][i].op = "p2p_prepay" =>
                        calls[r][i].args.sender_card_id = run[r].sender_card_id
            /\ (HasReturned(r) /\ run[r].result.status = "CONFIRMED") =>
                  run[r].result.receiver = run[r].chosen)
    /\ [][\A r \in Runs :
            /\ (run[r].pc = "wait_recipient" /\ run'[r].pc = "in_get_card_sello") =>
                  /\ inbox[r] # <<>>
                  /\ run'[r].chosen = Picked(Head(inbox[r]))
            /\ (run[r].pc = "wait_card"
                    /\ run'[r].pc = "in_get_recipient_sello_by_id") =>
                  /\ inbox[r] # <<>>
                  /\ run'[r].sender_card_id = Picked(Head(inbox[r]))
                  /\ run'[r].chosen = run[r].chosen]_vars

\* a confirmed run whose recipient step took the card_id of a reply without
\* recipient_id, a value that is no id of the recipients it had published,
\* and whose card step took a recipient_id
C32_Witness ==
    \E r \in Runs :
        /\ HasReturned(r)
        /\ run[r].result.status = "CONFIRMED"
        /\ run[r].chosen = Str(<<"c1">>)
        /\ run[r].result.receiver = Str(<<"c1">>)
        /\ \A k \in 1..Len(evts[r][1].list) : evts[r][1].list[k].id # Str(<<"c1">>)
        /\ run[r].sender_card_id = Str(<<"r1">>)
        /\ calls[r][3].args.recipient_id = Str(<<"c1">>)
        /\ calls[r][4].args.sender_card_id = Str(<<"r1">>)

\* what the waiter of run r makes of the message at the head of its
\* subscription
HeadEffect(r) ==
    IF run[r].pc = "wait_code"
    THEN wait_code_msg(Head(inbox[r]).data)
    ELSE wait_selected_msg(Head(inbox[r]).data)

\* C33: a wait ends in TIMEOUT only when more than timeout_sec has passed
\* since it subscribed and the poll that ended it read no valid reply; a
\* poll that reads a valid reply ends the wait with the value of that reply,
\* never in TIMEOUT, however much time has passed.
C33_TimeoutOnlyAfterDeadline ==
    [][\A r \in Runs :
          /\ (/\ run[r].pc \in InWait
              /\ run'[r].pc = "returned"
              /\ run'[r].result.status = "TIMEOUT") =>
                 /\ run[r].elapsed > timeout_sec
                 /\ inbox[r] # <<>> => HeadEffect(r).out # "value"
          /\ (/\ run[r].pc \in InWait
              /\ run'[r].pc # run[r].pc
              /\ inbox[r] # <<>>
              /\ HeadEffect(r).out = "value") =>
                 /\ run'[r].pc \in InCall
                 /\ run[r].pc = "wait_recipient" => run'[r].chosen = HeadEffect(r).v
                 /\ run[r].pc = "wait_card" =>
                       run'[r].sender_card_id = HeadEffect(r).v
                 /\ run[r].pc = "wait_code" =>
                       calls'[r][Len(calls'[r])].args.code = HeadEffect(r).v]_vars

\* the recipient step has ended with a value although no valid reply had
\* been published before its deadline: the reply came after the deadline and
\* before the next poll
C33_Witness ==
    \E r \in Runs :
        /\ run[r].pc = "in_get_card_sello"
        /\ Truthy(run[r].chosen)
        /\ ~run[r].replied

\* C34: whatever is published, a run that is waiting leaves its wait; and
\* once the time waited is past the timeout, the very next poll of the run,
\* whether it reads a message or none, ends the wait.
C34_WaitsEndUnderNoise ==
    /\ \A r \in Runs : (run[r].pc \in InWait) ~> (run[r].pc \notin InWait)
    /\ [][\A r \in Runs :
             (/\ run[r].pc \in InWait
              /\ TimedOut(run[r].elapsed)
              /\ \/ Len(inbox'[r]) < Len(inbox[r])
                 \/ run'[r] # run[r]) =>
                 run'[r].pc \notin InWait]_vars

\* the wait for the code is past its timeout and its subscription is full
\* of messages without value
C34_Witness ==
    \E r \in Runs :
        /\ run[r].pc = "wait_code"
        /\ TimedOut(run[r].elapsed)
        /\ Len(inbox[r]) = MaxInbox
        /\ \A i \in 1..Len(inbox[r]) : inbox[r][i].data \in NoiseData

=============================================================================
